---- MODULE Spec2Model ----
(***************************************************************************)
(* The Timer action of oscarb/pomodoro (the Zod-validated revision with    *)
(* timer-view.ts and timer-types.ts), as a state machine.                  *)
(*                                                                         *)
(* One atomic action per synchronous run of JavaScript: an event handler   *)
(* or timer callback runs up to its first suspension, which is always the  *)
(* `await ev.action.setTitle("")` of updateView; the rest of updateView    *)
(* (signature comparison, lastState update, setImage) is the continuation  *)
(* ResumeRender, run when that promise settles.                            *)
(*                                                                         *)
(* Time: `now` is Date.now() in milliseconds. Interval and timeout         *)
(* callbacks are driven by the runtime's own timer queue, so a callback    *)
(* may observe any wall-clock value (late, missed or early ticks).         *)
(***************************************************************************)
EXTENDS Integers, Sequences, FiniteSets, TLC

VARIABLES
    now,          \* Date.now(), ms
    platform,     \* process.platform
    present,      \* host: id is visible (between appear and disappear)
    down,         \* host: key of id is held
    hostSettings, \* host: index of the raw settings stored for id
    contexts,     \* Timer.contexts: id -> context object (0 = no entry)
    heap,         \* the TimerContext objects
    timers,       \* the runtime's live setInterval/setTimeout handles
    inflight,     \* updateView calls suspended at `await setTitle`
    press,        \* history: actions performed for the current press of id
    irregular,    \* history: host events from the first that broke the protocol on
    last          \* history: the step just taken and the host calls it made

vars == <<now, platform, present, down, hostSettings, contexts, heap, timers,
          inflight, press, irregular, last>>

----------------------------------------------------------------------------
(* Bounds of the model *)

\* wall-clock instants are observed up to this many whole minutes
MaxPeriods == 2
\* the same, when every render settles before the next event (SpecPrompt)
MaxLongPeriods == 4
\* SpecFree: host events followed from the first one outside the protocol on
\* (the protocol: appear/disappear and press-down/press-up alternate, and events
\* come only for a visible id); timers and renders run on without limit
MaxIrregular == 2
\* whole minutes observed in SpecFree
MaxFreePeriods == 1
MaxPairPeriods == 1
MaxCompletions == 5
MaxNumber == 99
MaxSeconds == 1500
MaxMinutes == 30
\* TimerContext objects alive at once (mapped, or held by a closure)
MaxCtx == 2
\* live or still-referenced timer handles
MaxTimers == 3
\* updateView calls suspended at once
MaxInflight == 1
MaxRenders == 2

(* Program constants *)
DEFAULT_WORK_MINS == 25
DEFAULT_BREAK_MINS == 5
DEFAULT_NUM_CYCLES == 4
MIN_CYCLES == 1
MAX_CYCLES == 4
HOLD_MS == 1500
TICK_MS == 50
INITIAL_REMAINING == 25 * 60
PROGRESS_STEPS == 400
OPACITY_STEPS == 20
PULSE_DIVISOR == 600

AllIds == {"k1", "k2"}
Ids == {"k1"}

MinuteMs == 60 * 1000
Offsets == {0, 59500}
Instants == {p * MinuteMs + o : p \in 0..MaxPeriods, o \in Offsets}
FreeInstants == {p * MinuteMs + o : p \in 0..MaxFreePeriods, o \in Offsets}
PairInstants == {p * MinuteMs : p \in 0..MaxPairPeriods}
LongInstants == {p * MinuteMs + o : p \in 0..MaxLongPeriods, o \in Offsets}

Min(a, b) == IF a < b THEN a ELSE b
Max(a, b) == IF a > b THEN a ELSE b

----------------------------------------------------------------------------
(* TimerState *)

IDLE_WORK == "IDLE_WORK"
RUNNING_WORK == "RUNNING_WORK"
PAUSED_WORK == "PAUSED_WORK"
IDLE_BREAK == "IDLE_BREAK"
RUNNING_BREAK == "RUNNING_BREAK"
PAUSED_BREAK == "PAUSED_BREAK"

TimerState == {IDLE_WORK, RUNNING_WORK, PAUSED_WORK,
               IDLE_BREAK, RUNNING_BREAK, PAUSED_BREAK}

----------------------------------------------------------------------------
(* Settings: raw values from the host and TimerSettingsSchema *)

\* a raw field is undefined, a string (a tuple of characters) or of another type
Undef == [t |-> "undefined", v |-> <<>>]
Str(s) == [t |-> "string", v |-> s]
Num(s) == [t |-> "number", v |-> s]

DigitVal == [c \in {"0", "1", "2", "3", "4", "5", "6", "7", "8", "9"} |->
               CASE c = "0" -> 0 [] c = "1" -> 1 [] c = "2" -> 2 [] c = "3" -> 3
                 [] c = "4" -> 4 [] c = "5" -> 5 [] c = "6" -> 6 [] c = "7" -> 7
                 [] c = "8" -> 8 [] c = "9" -> 9]

IsDigit(c) == c \in DOMAIN DigitVal

NaN == [nan |-> TRUE, n |-> 0]
Number(n) == [nan |-> FALSE, n |-> n]

RECURSIVE SkipSpace(_)
SkipSpace(s) == IF s # <<>> /\ Head(s) = " " THEN SkipSpace(Tail(s)) ELSE s

RECURSIVE DigitsValue(_, _)
\* the value of the leading run of decimal digits of s, continuing from acc
DigitsValue(s, acc) ==
    IF s # <<>> /\ IsDigit(Head(s))
    THEN DigitsValue(Tail(s), acc * 10 + DigitVal[Head(s)])
    ELSE acc

\* parseInt(s): leading blanks, an optional sign, then decimal digits; NaN if none
ParseInt(s) ==
    LET t == SkipSpace(s)
        neg == t # <<>> /\ Head(t) = "-"
        u == IF t # <<>> /\ Head(t) \in {"-", "+"} THEN Tail(t) ELSE t
    IN  IF u = <<>> \/ ~IsDigit(Head(u)) THEN NaN
        ELSE Number(IF neg THEN 0 - DigitsValue(u, 0) ELSE DigitsValue(u, 0))

\* val ?? dflt, then parseInt
ParseOr(field, dflt) == ParseInt(IF field.t = "undefined" THEN dflt ELSE field.v)

TransformWorkTime(field) ==
    LET parsed == ParseOr(field, <<"2", "5">>)
    IN  IF parsed.nan \/ parsed.n < 1 THEN DEFAULT_WORK_MINS ELSE parsed.n

TransformBreakTime(field) ==
    LET parsed == ParseOr(field, <<"5">>)
    IN  IF parsed.nan \/ parsed.n < 1 THEN DEFAULT_BREAK_MINS ELSE parsed.n

\* mutant: parseInt(..) || 4, with no clamp
TransformNumCyclesUnclamped(field) ==
    LET parsed == ParseOr(field, <<"4">>)
    IN  IF parsed.nan \/ parsed.n = 0 THEN DEFAULT_NUM_CYCLES ELSE parsed.n

TransformNumCycles(field) ==
    LET parsed == ParseOr(field, <<"4">>)
    IN  Min(MAX_CYCLES, Max(MIN_CYCLES, IF parsed.nan THEN DEFAULT_NUM_CYCLES ELSE parsed.n))

\* z.string().optional() / z.boolean().optional(): the field's type is accepted
StringOptionalOk(field) == field.t \in {"undefined", "string"}
BooleanOptionalOk(field) == field.t \in {"undefined", "boolean"}

SchemaAccepts(raw) ==
    /\ StringOptionalOk(raw.workTime)
    /\ StringOptionalOk(raw.breakTime)
    /\ StringOptionalOk(raw.numCycles)
    /\ BooleanOptionalOk(raw.soundEnabled)

Bool(b) == [t |-> "boolean", v |-> IF b THEN <<"t">> ELSE <<>>]

EmptyObject == [workTime |-> Undef, breakTime |-> Undef, numCycles |-> Undef,
                soundEnabled |-> Undef]

Null == [t |-> "null", v |-> <<>>]

\* settings || {}
OrEmptyObject(settings) == IF settings \in {Undef, Null} THEN EmptyObject ELSE settings

\* TimerSettingsSchema.parse(settings || {}); ok = FALSE when Zod throws
parseSettings(settings) ==
    LET raw == OrEmptyObject(settings)
    IN  IF SchemaAccepts(raw)
        THEN [ok |-> TRUE,
              workTime |-> TransformWorkTime(raw.workTime),
              breakTime |-> TransformBreakTime(raw.breakTime),
              numCycles |-> TransformNumCycles(raw.numCycles),
              soundEnabled |-> IF raw.soundEnabled.t = "undefined" THEN FALSE
                               ELSE raw.soundEnabled.v # <<>>]
        ELSE [ok |-> FALSE, workTime |-> 0, breakTime |-> 0, numCycles |-> 0,
              soundEnabled |-> FALSE]

\* the raw settings objects the host stores in this model
RawChoices ==
    << [workTime |-> Str(<<"1">>), breakTime |-> Str(<<"1">>),
        numCycles |-> Str(<<"2">>), soundEnabled |-> Bool(TRUE)],
       [workTime |-> Str(<<"2">>), breakTime |-> Str(<<"1">>),
        numCycles |-> Str(<<"9">>), soundEnabled |-> Undef] >>

RawIdx == DOMAIN RawChoices

----------------------------------------------------------------------------
(* TimerContext objects, timer handles, suspended renders *)

\* ctx.lastState = {}
EmptyLastState ==
    [empty |-> TRUE, progressStep |-> 0, title |-> <<>>, contentOpacity |-> 0,
     globalOpacity |-> 0, pulseOpacity |-> 0, indicatorOpacity |-> 0,
     state |-> IDLE_WORK, currentCycle |-> 0]

\* the object getContext creates; timer fields hold a handle, 0 = null
NewContext ==
    [state |-> IDLE_WORK, currentCycle |-> 0, targetEndTime |-> 0,
     remainingSeconds |-> INITIAL_REMAINING, timer |-> 0, pauseAnimationTimer |-> 0,
     holdTimeout |-> 0, didHoldAction |-> FALSE, lastState |-> EmptyLastState]

NoSettings == [ok |-> FALSE, workTime |-> 0, breakTime |-> 0, numCycles |-> 0,
               soundEnabled |-> FALSE]

\* a free slot of the runtime's timer table
NoTimer == [kind |-> "none", ctx |-> 0, id |-> "", settings |-> NoSettings]

CtxRefs == 1..MaxCtx
Handles == 1..MaxTimers

\* the part of the program state a handler reads and writes; ok = FALSE when the
\* run would need more objects, handles or suspended calls than the model holds
Machine(cx, hp, tm, fl) ==
    [contexts |-> cx, heap |-> hp, timers |-> tm, inflight |-> fl,
     calls |-> <<>>, ok |-> TRUE]

Referenced(m, c) ==
    \/ \E id \in AllIds : m.contexts[id] = c
    \/ \E h \in Handles : m.timers[h].kind # "none" /\ m.timers[h].ctx = c
    \/ \E i \in DOMAIN m.inflight : m.inflight[i].ctx = c

HandleInUse(m, h) ==
    \/ m.timers[h].kind # "none"
    \/ \E c \in CtxRefs : \/ m.heap[c].timer = h
                          \/ m.heap[c].pauseAnimationTimer = h
                          \/ m.heap[c].holdTimeout = h

FreeHandles(m) == {h \in Handles : ~HandleInUse(m, h)}
FreeCtxs(m) == {c \in CtxRefs : ~Referenced(m, c)}

Least(S) == CHOOSE x \in S : \A y \in S : x <= y

\* objects no closure and no map entry reaches are unobservable: forget them
Collect(m) ==
    [m EXCEPT !.heap = [c \in CtxRefs |->
                          IF Referenced(m, c) THEN m.heap[c] ELSE NewContext]]

\* clearInterval / clearTimeout: a no-op on a handle that is not live
clearTimer(m, h) ==
    IF h \in Handles THEN [m EXCEPT !.timers[h] = NoTimer] ELSE m

\* setInterval / setTimeout: a fresh handle for the closure (kind, ctx, ev, settings)
setTimer(m, kind, c, id, settings) ==
    IF FreeHandles(m) = {} THEN [m EXCEPT !.ok = FALSE]
    ELSE [m EXCEPT !.timers[Least(FreeHandles(m))] =
                       [kind |-> kind, ctx |-> c, id |-> id, settings |-> settings]]

\* the handle setTimer has just returned
NewHandle(m) == IF FreeHandles(m) = {} THEN 0 ELSE Least(FreeHandles(m))

----------------------------------------------------------------------------
(* Render pipeline: the pure part *)

DigitChar == <<"0", "1", "2", "3", "4", "5", "6", "7", "8", "9">>

RECURSIVE ToDecimal(_)
\* `${n}` for a non-negative integer
ToDecimal(n) ==
    IF n < 10 THEN <<DigitChar[n + 1]>>
    ELSE Append(ToDecimal(n \div 10), DigitChar[(n % 10) + 1])

TemplateNumber(n) == IF n < 0 THEN <<"-">> \o ToDecimal(0 - n) ELSE ToDecimal(n)

\* mutant: minutes rounded up
formatTimeCeil(seconds) ==
    IF seconds < 60 THEN TemplateNumber(seconds)
    ELSE TemplateNumber((seconds + 59) \div 60)

formatTime(seconds) ==
    IF seconds < 60 THEN TemplateNumber(seconds)
    ELSE TemplateNumber(seconds \div 60)

IsWorkFamily(state) == state \in {RUNNING_WORK, IDLE_WORK, PAUSED_WORK}

\* mutant: only the running and idle work phases use the work duration
getTotalSecondsPausedAsBreak(ctx, settings) ==
    IF ctx.state \in {RUNNING_WORK, IDLE_WORK} THEN settings.workTime * 60
    ELSE settings.breakTime * 60

getTotalSecondsForCurrentState(ctx, settings) ==
    IF IsWorkFamily(ctx.state) THEN settings.workTime * 60
    ELSE settings.breakTime * 60

\* Math.sin(t / 600) in units of 1/10000, at the instants the model observes
SinTable ==
    (0 :> 0) @@ (500 :> 7402) @@ (59500 :> -9788) @@
    (60000 :> -5064) @@ (60500 :> 2978) @@ (119500 :> -9478) @@
    (120000 :> -8733) @@ (120500 :> -2266) @@ (179500 :> -6559) @@
    (180000 :> -9998) @@ (180500 :> -6886) @@ (239500 :> -1834) @@
    (240000 :> -8509) @@ (240500 :> -9610) @@ (299500 :> 3397) @@
    (300000 :> -4678) @@ (300500 :> -9687) @@ (359500 :> 7692) @@
    (360000 :> 442) @@ (360500 :> -7097) @@ (419500 :> 9869) @@
    (420000 :> 5440) @@ (420500 :> -2553) @@ (479500 :> 9328) @@
    (480000 :> 8940) @@ (480500 :> 2694) @@ (539500 :> 6219)

SinE4(t) == SinTable[t]

\* Math.round(x * 20) for x = milli / 1000, x >= 0
RoundTwentieths(milli) == (milli * 2 * OPACITY_STEPS + 1000) \div 2000

\* Math.round((0.75 + 0.25 * sin) * 20)
PulseTwentieths(t) == (2 * 10000 * 15 + 2 * 5 * SinE4(t) + 10000) \div 20000

\* Math.round((0.6 + 0.4 * sin) * 20)
IndicatorTwentieths(t) == (2 * 10000 * 12 + 2 * 8 * SinE4(t) + 10000) \div 20000

IsRunning(state) == state \in {RUNNING_WORK, RUNNING_BREAK}
IsPaused(state) == state \in {PAUSED_WORK, PAUSED_BREAK}
IsIdle(state) == state \in {IDLE_WORK, IDLE_BREAK}

\* the values updateView computes after setTitle settles. r is the suspended call:
\* now, secs (ms) and title were read before the await, the context is read after.
\* Opacities not yet quantised are in 1/1000; quantised ones in 1/20.
ViewParams(ctx, r) ==
    LET totalMs == getTotalSecondsForCurrentState(ctx, r.settings) * 1000
        progressNum == Max(0, Min(totalMs, r.secsMs))
        isRunning == IsRunning(ctx.state)
        isPaused == IsPaused(ctx.state)
        contentOpacity == IF isRunning /\ r.secsMs >= 60000 /\ r.secsMs < 61000
                          THEN r.secsMs - 60000 ELSE 1000
        globalOpacity == IF isRunning /\ r.secsMs < 2000
                         THEN Max(0, r.secsMs) ELSE 1000
        pulseOpacity == IF isPaused THEN PulseTwentieths(r.now) ELSE OPACITY_STEPS
        indicatorOpacity == IF ctx.currentCycle >= 0 /\ isRunning /\ ~isPaused
                            THEN IndicatorTwentieths(r.now) ELSE OPACITY_STEPS
    IN  [progressNum |-> progressNum, progressDen |-> totalMs,
         contentOpacity |-> contentOpacity, globalOpacity |-> globalOpacity,
         pulseOpacity |-> pulseOpacity, indicatorOpacity |-> indicatorOpacity]

\* newState of updateView
NewLastState(ctx, r) ==
    LET v == ViewParams(ctx, r)
    IN  [empty |-> FALSE,
         progressStep |-> (2 * PROGRESS_STEPS * v.progressNum + v.progressDen)
                            \div (2 * v.progressDen),
         title |-> r.title,
         contentOpacity |-> RoundTwentieths(v.contentOpacity),
         globalOpacity |-> RoundTwentieths(v.globalOpacity),
         pulseOpacity |-> v.pulseOpacity,
         indicatorOpacity |-> v.indicatorOpacity,
         state |-> ctx.state,
         currentCycle |-> ctx.currentCycle]

\* one indicator dot of generateSvg
Dot(i, currentCycle) ==
    IF i < currentCycle THEN "completed"
    ELSE IF i = currentCycle THEN "current" ELSE "inactive"

\* generateSvg: the parts of the image that vary
generateSvg(ctx, r) ==
    LET v == ViewParams(ctx, r)
    IN  [isWork |-> IsWorkFamily(ctx.state),
         progressNum |-> v.progressNum, progressDen |-> v.progressDen,
         text |-> r.title,
         isSeconds |-> ctx.remainingSeconds < 60,
         contentOpacity |-> v.contentOpacity,
         globalOpacity |-> v.globalOpacity,
         pulseOpacity |-> v.pulseOpacity,
         indicatorOpacity |-> v.indicatorOpacity,
         dots |-> [i \in 1..r.settings.numCycles |-> Dot(i - 1, ctx.currentCycle)]]

NoImage == [isWork |-> TRUE, progressNum |-> 0, progressDen |-> 1, text |-> <<>>,
            isSeconds |-> FALSE, contentOpacity |-> 0, globalOpacity |-> 0,
            pulseOpacity |-> 0, indicatorOpacity |-> 0, dots |-> <<>>]

\* host operations and side effects
SetTitleCall(id) == [op |-> "setTitle", id |-> id, image |-> NoImage]
SetImageCall(id, img) == [op |-> "setImage", id |-> id, image |-> img]
SoundCall(id) == [op |-> "exec", id |-> id, image |-> NoImage]

----------------------------------------------------------------------------
(* Timer: the private methods, as functions of the machine state m *)

\* exactSeconds omitted
NoExact == [has |-> FALSE, ms |-> 0]
Exact(ms) == [has |-> TRUE, ms |-> ms]

\* mutant: stopping the countdown also clears the deadline
stopTimerClearDeadline(m, c) ==
    IF m.heap[c].timer # 0
    THEN [clearTimer(m, m.heap[c].timer) EXCEPT !.heap[c].timer = 0,
                                                !.heap[c].targetEndTime = 0]
    ELSE m

\* mutant: the field is cleared but the interval is left running
stopTimerLeak(m, c) ==
    IF m.heap[c].timer # 0 THEN [m EXCEPT !.heap[c].timer = 0] ELSE m

stopTimer(m, c) ==
    IF m.heap[c].timer # 0
    THEN [clearTimer(m, m.heap[c].timer) EXCEPT !.heap[c].timer = 0]
    ELSE m

stopPauseAnimation(m, c) ==
    IF m.heap[c].pauseAnimationTimer # 0
    THEN [clearTimer(m, m.heap[c].pauseAnimationTimer)
            EXCEPT !.heap[c].pauseAnimationTimer = 0]
    ELSE m

\* updateView up to `await ev.action.setTitle("")`: now, secs and title are read,
\* setTitle is called, and the call is suspended
updateView(m, c, id, settings, exactSeconds) ==
    LET ctx == m.heap[c]
        r == [ctx |-> c, id |-> id, settings |-> settings, now |-> now,
              secsMs |-> IF exactSeconds.has THEN exactSeconds.ms
                         ELSE ctx.remainingSeconds * 1000,
              title |-> formatTime(ctx.remainingSeconds)]
    IN  IF Len(m.inflight) >= MaxRenders THEN [m EXCEPT !.ok = FALSE]
        ELSE [m EXCEPT !.inflight = Append(@, r),
                       !.calls = Append(@, SetTitleCall(id))]

\* mutant: the comparison with lastState leaves the title out
resumeUpdateViewIgnoreTitle(m, r) ==
    LET ctx == m.heap[r.ctx]
        newState == NewLastState(ctx, r)
    IN  IF [newState EXCEPT !.title = <<>>] = [ctx.lastState EXCEPT !.title = <<>>]
        THEN m
        ELSE [m EXCEPT !.heap[r.ctx].lastState = newState,
                       !.calls = Append(@, SetImageCall(r.id, generateSvg(ctx, r)))]

\* mutant: an empty lastState counts as unchanged
resumeUpdateViewSkipFirst(m, r) ==
    LET ctx == m.heap[r.ctx]
        newState == NewLastState(ctx, r)
    IN  IF newState = ctx.lastState \/ ctx.lastState.empty THEN m
        ELSE [m EXCEPT !.heap[r.ctx].lastState = newState,
                       !.calls = Append(@, SetImageCall(r.id, generateSvg(ctx, r)))]

\* mutant: the image is emitted without comparing with lastState
resumeUpdateViewAlways(m, r) ==
    LET ctx == m.heap[r.ctx]
    IN  [m EXCEPT !.heap[r.ctx].lastState = NewLastState(ctx, r),
                  !.calls = Append(@, SetImageCall(r.id, generateSvg(ctx, r)))]

\* the rest of updateView, after setTitle has settled
resumeUpdateView(m, r) ==
    LET ctx == m.heap[r.ctx]
        newState == NewLastState(ctx, r)
    IN  IF newState = ctx.lastState THEN m
        ELSE [m EXCEPT !.heap[r.ctx].lastState = newState,
                       !.calls = Append(@, SetImageCall(r.id, generateSvg(ctx, r)))]

\* mutant: the deadline is computed in seconds, not milliseconds
startTimerSeconds(m, c, id, durationSeconds, settings) ==
    LET m1 == IF m.heap[c].timer # 0 THEN clearTimer(m, m.heap[c].timer) ELSE m
        m2 == stopPauseAnimation(m1, c)
        m3 == [m2 EXCEPT !.heap[c].targetEndTime = now + durationSeconds]
    IN  [setTimer(m3, "tick", c, id, settings) EXCEPT !.heap[c].timer = NewHandle(m3)]

startTimer(m, c, id, durationSeconds, settings) ==
    LET m1 == IF m.heap[c].timer # 0 THEN clearTimer(m, m.heap[c].timer) ELSE m
        m2 == stopPauseAnimation(m1, c)
        m3 == [m2 EXCEPT !.heap[c].targetEndTime = now + durationSeconds * 1000]
    IN  [setTimer(m3, "tick", c, id, settings) EXCEPT !.heap[c].timer = NewHandle(m3)]

startPauseAnimation(m, c, id, settings) ==
    LET m1 == IF m.heap[c].pauseAnimationTimer # 0
              THEN clearTimer(m, m.heap[c].pauseAnimationTimer) ELSE m
    IN  [setTimer(m1, "pulse", c, id, settings)
           EXCEPT !.heap[c].pauseAnimationTimer = NewHandle(m1)]

\* mutant: the cycle index is incremented without the modulo
handleTimerCompleteNoWrap(m, c, id, settings) ==
    LET m1 == IF settings.soundEnabled /\ platform = "darwin"
              THEN [m EXCEPT !.calls = Append(@, SoundCall(id))] ELSE m
        st == m1.heap[c].state
        m2 == IF st = RUNNING_WORK \/ st = PAUSED_WORK
              THEN [m1 EXCEPT !.heap[c].state = IDLE_BREAK,
                              !.heap[c].remainingSeconds = settings.breakTime * 60]
              ELSE IF st = RUNNING_BREAK \/ st = PAUSED_BREAK
              THEN [m1 EXCEPT !.heap[c].state = IDLE_WORK,
                              !.heap[c].currentCycle = m1.heap[c].currentCycle + 1,
                              !.heap[c].remainingSeconds = settings.workTime * 60]
              ELSE m1
    IN  updateView(m2, c, id, settings, NoExact)

\* mutant: the sound command is run whatever the platform
handleTimerCompleteAnyPlatform(m, c, id, settings) ==
    LET m1 == IF settings.soundEnabled
              THEN [m EXCEPT !.calls = Append(@, SoundCall(id))] ELSE m
        st == m1.heap[c].state
        m2 == IF st = RUNNING_WORK \/ st = PAUSED_WORK
              THEN [m1 EXCEPT !.heap[c].state = IDLE_BREAK,
                              !.heap[c].remainingSeconds = settings.breakTime * 60]
              ELSE IF st = RUNNING_BREAK \/ st = PAUSED_BREAK
              THEN [m1 EXCEPT !.heap[c].state = IDLE_WORK,
                              !.heap[c].currentCycle =
                                  (m1.heap[c].currentCycle + 1) % settings.numCycles,
                              !.heap[c].remainingSeconds = settings.workTime * 60]
              ELSE m1
    IN  updateView(m2, c, id, settings, NoExact)

\* mutant: a completed break is followed by another break
handleTimerCompleteBreakAgain(m, c, id, settings) ==
    LET m1 == IF settings.soundEnabled /\ platform = "darwin"
              THEN [m EXCEPT !.calls = Append(@, SoundCall(id))] ELSE m
        st == m1.heap[c].state
        m2 == IF st \in {RUNNING_WORK, PAUSED_WORK, RUNNING_BREAK, PAUSED_BREAK}
              THEN [m1 EXCEPT !.heap[c].state = IDLE_BREAK,
                              !.heap[c].remainingSeconds = settings.breakTime * 60]
              ELSE m1
    IN  updateView(m2, c, id, settings, NoExact)

handleTimerComplete(m, c, id, settings) ==
    LET m1 == IF settings.soundEnabled /\ platform = "darwin"
              THEN [m EXCEPT !.calls = Append(@, SoundCall(id))] ELSE m
        st == m1.heap[c].state
        m2 == IF st = RUNNING_WORK \/ st = PAUSED_WORK
              THEN [m1 EXCEPT !.heap[c].state = IDLE_BREAK,
                              !.heap[c].remainingSeconds = settings.breakTime * 60]
              ELSE IF st = RUNNING_BREAK \/ st = PAUSED_BREAK
              THEN [m1 EXCEPT !.heap[c].state = IDLE_WORK,
                              !.heap[c].currentCycle =
                                  (m1.heap[c].currentCycle + 1) % settings.numCycles,
                              !.heap[c].remainingSeconds = settings.workTime * 60]
              ELSE m1
    IN  updateView(m2, c, id, settings, NoExact)

\* mutant: the pause-pulse interval is not stopped before completing
advanceNextStepKeepPulse(m, c, id, settings) ==
    handleTimerComplete(m, c, id, settings)

advanceNextStep(m, c, id, settings) ==
    handleTimerComplete(stopPauseAnimation(m, c), c, id, settings)

\* mutant: the reset moves on to the next cycle
resetNextCycle(m, c, id, settings) ==
    LET m1 == stopPauseAnimation(stopTimer(m, c), c)
        m2 == [m1 EXCEPT !.heap[c].state = IDLE_WORK,
                         !.heap[c].currentCycle =
                             (m1.heap[c].currentCycle + 1) % settings.numCycles,
                         !.heap[c].remainingSeconds = settings.workTime * 60]
    IN  updateView(m2, c, id, settings, NoExact)

\* mutant: the reset keeps the cycle index
resetKeepCycle(m, c, id, settings) ==
    LET m1 == stopPauseAnimation(stopTimer(m, c), c)
        m2 == [m1 EXCEPT !.heap[c].state = IDLE_WORK,
                         !.heap[c].remainingSeconds = settings.workTime * 60]
    IN  updateView(m2, c, id, settings, NoExact)

\* mutant: the reset leaves the countdown and the pause-pulse running
resetNoStop(m, c, id, settings) ==
    LET m2 == [m EXCEPT !.heap[c].state = IDLE_WORK,
                        !.heap[c].currentCycle = 0,
                        !.heap[c].remainingSeconds = settings.workTime * 60]
    IN  updateView(m2, c, id, settings, NoExact)

reset(m, c, id, settings) ==
    LET m1 == stopPauseAnimation(stopTimer(m, c), c)
        m2 == [m1 EXCEPT !.heap[c].state = IDLE_WORK,
                         !.heap[c].currentCycle = 0,
                         !.heap[c].remainingSeconds = settings.workTime * 60]
    IN  updateView(m2, c, id, settings, NoExact)

\* mutant: a short press on IdleBreak skips the break and starts the next work phase
handleShortPressSkipBreak(m, c, id, settings) ==
    LET st == m.heap[c].state
        rem == m.heap[c].remainingSeconds
        to(s) == [m EXCEPT !.heap[c].state = s]
        m1 == CASE st \in {IDLE_WORK, IDLE_BREAK} ->
                     startTimer([to(RUNNING_WORK) EXCEPT
                                    !.heap[c].remainingSeconds = settings.workTime * 60,
                                    !.heap[c].currentCycle =
                                        IF st = IDLE_BREAK THEN @ + 1 ELSE @],
                                c, id, settings.workTime * 60, settings)
                [] st = RUNNING_WORK ->
                     startPauseAnimation(stopTimer(to(PAUSED_WORK), c), c, id, settings)
                [] st = PAUSED_WORK ->
                     startTimer(stopPauseAnimation(to(RUNNING_WORK), c),
                                c, id, rem, settings)
                [] st = RUNNING_BREAK ->
                     startPauseAnimation(stopTimer(to(PAUSED_BREAK), c), c, id, settings)
                [] st = PAUSED_BREAK ->
                     startTimer(stopPauseAnimation(to(RUNNING_BREAK), c),
                                c, id, rem, settings)
    IN  IF m1.ok THEN updateView(m1, c, id, settings, NoExact) ELSE m1

handleShortPress(m, c, id, settings) ==
    LET st == m.heap[c].state
        rem == m.heap[c].remainingSeconds
        to(s) == [m EXCEPT !.heap[c].state = s]
        m1 == CASE st = IDLE_WORK ->
                     startTimer([to(RUNNING_WORK) EXCEPT
                                    !.heap[c].remainingSeconds = settings.workTime * 60],
                                c, id, settings.workTime * 60, settings)
                [] st = RUNNING_WORK ->
                     startPauseAnimation(stopTimer(to(PAUSED_WORK), c), c, id, settings)
                [] st = PAUSED_WORK ->
                     startTimer(stopPauseAnimation(to(RUNNING_WORK), c),
                                c, id, rem, settings)
                [] st = IDLE_BREAK ->
                     startTimer([to(RUNNING_BREAK) EXCEPT
                                    !.heap[c].remainingSeconds = settings.breakTime * 60],
                                c, id, settings.breakTime * 60, settings)
                [] st = RUNNING_BREAK ->
                     startPauseAnimation(stopTimer(to(PAUSED_BREAK), c), c, id, settings)
                [] st = PAUSED_BREAK ->
                     startTimer(stopPauseAnimation(to(RUNNING_BREAK), c),
                                c, id, rem, settings)
    IN  IF m1.ok THEN updateView(m1, c, id, settings, NoExact) ELSE m1

updateStateFromSettings(m, c, settings) ==
    IF m.heap[c].state = IDLE_WORK
    THEN [m EXCEPT !.heap[c].remainingSeconds = settings.workTime * 60]
    ELSE IF m.heap[c].state = IDLE_BREAK
    THEN [m EXCEPT !.heap[c].remainingSeconds = settings.breakTime * 60]
    ELSE m

\* mutant: one context object for the whole action, whatever the id
getContextShared(m, id) ==
    LET existing == {c \in CtxRefs : \E i \in AllIds : m.contexts[i] = c}
    IN  IF m.contexts[id] # 0 THEN m
        ELSE IF existing # {} THEN [m EXCEPT !.contexts[id] = Least(existing)]
        ELSE IF FreeCtxs(m) = {} THEN [m EXCEPT !.ok = FALSE]
        ELSE [m EXCEPT !.contexts[id] = Least(FreeCtxs(m)),
                       !.heap[Least(FreeCtxs(m))] = NewContext]

getContext(m, id) ==
    IF m.contexts[id] # 0 THEN m
    ELSE IF FreeCtxs(m) = {} THEN [m EXCEPT !.ok = FALSE]
    ELSE [m EXCEPT !.contexts[id] = Least(FreeCtxs(m)),
                   !.heap[Least(FreeCtxs(m))] = NewContext]

----------------------------------------------------------------------------
(* Timer: the event handlers and the timer callbacks, up to their first await *)

\* mutant: the new settings only refresh an Idle instance, as onWillAppear does
onDidReceiveSettingsRefresh(m, id, raw) ==
    LET m1 == getContext(m, id)
        settings == parseSettings(raw)
    IN  IF ~m1.ok \/ ~settings.ok THEN m1
        ELSE updateView(updateStateFromSettings(m1, m1.contexts[id], settings),
                        m1.contexts[id], id, settings, NoExact)

onDidReceiveSettings(m, id, raw) ==
    LET m1 == getContext(m, id)
        settings == parseSettings(raw)
    IN  IF ~m1.ok \/ ~settings.ok THEN m1
        ELSE reset(m1, m1.contexts[id], id, settings)

onKeyDown(m, id, raw) ==
    LET m1 == getContext(m, id)
        c == m1.contexts[id]
        settings == parseSettings(raw)
        m2 == [m1 EXCEPT !.heap[c].didHoldAction = FALSE]
    IN  IF ~m1.ok \/ ~settings.ok THEN m1
        ELSE [setTimer(m2, "hold", c, id, settings)
                EXCEPT !.heap[c].holdTimeout = NewHandle(m2)]

\* mutant: the callback does not record that the hold action was performed
holdCallbackNoFlag(m, h) ==
    LET t == m.timers[h]
        m1 == clearTimer(m, h)
        st == m1.heap[t.ctx].state
    IN  IF st = PAUSED_WORK \/ st = PAUSED_BREAK
        THEN advanceNextStep(m1, t.ctx, t.id, t.settings)
        ELSE reset(m1, t.ctx, t.id, t.settings)

\* mutant: the long-press action is chosen by the phase at press-down
holdCallbackAtPressDown(m, h) ==
    LET t == m.timers[h]
        m1 == [clearTimer(m, h) EXCEPT !.heap[t.ctx].didHoldAction = TRUE]
        st == press[t.id].state
    IN  IF st = PAUSED_WORK \/ st = PAUSED_BREAK
        THEN advanceNextStep(m1, t.ctx, t.id, t.settings)
        ELSE reset(m1, t.ctx, t.id, t.settings)

\* the setTimeout callback of onKeyDown, for the live timeout h
holdCallback(m, h) ==
    LET t == m.timers[h]
        m1 == [clearTimer(m, h) EXCEPT !.heap[t.ctx].didHoldAction = TRUE]
        st == m1.heap[t.ctx].state
    IN  IF st = PAUSED_WORK \/ st = PAUSED_BREAK
        THEN advanceNextStep(m1, t.ctx, t.id, t.settings)
        ELSE reset(m1, t.ctx, t.id, t.settings)

\* TRUE when onKeyUp goes on to handleShortPress
KeyUpIsShortPress(m, id, raw) ==
    LET m1 == getContext(m, id)
    IN  m1.ok /\ parseSettings(raw).ok /\ ~m1.heap[m1.contexts[id]].didHoldAction

\* mutant: the pending long-press timeout is not cleared on press-up
onKeyUpNoClear(m, id, raw) ==
    LET m1 == getContext(m, id)
        c == m1.contexts[id]
        settings == parseSettings(raw)
    IN  IF ~m1.ok \/ ~settings.ok THEN m1
        ELSE IF m1.heap[c].didHoldAction THEN m1
        ELSE handleShortPress(m1, c, id, settings)

onKeyUp(m, id, raw) ==
    LET m1 == getContext(m, id)
        c == m1.contexts[id]
        settings == parseSettings(raw)
        m2 == IF m1.heap[c].holdTimeout # 0
              THEN [clearTimer(m1, m1.heap[c].holdTimeout)
                      EXCEPT !.heap[c].holdTimeout = 0]
              ELSE m1
    IN  IF ~m1.ok \/ ~settings.ok THEN m1
        ELSE IF m2.heap[c].didHoldAction THEN m2
        ELSE handleShortPress(m2, c, id, settings)

\* mutant: appear resets the instance, as a settings change does
onWillAppearReset(m, id, raw) ==
    LET m1 == getContext(m, id)
        settings == parseSettings(raw)
    IN  IF ~m1.ok \/ ~settings.ok THEN m1
        ELSE reset(m1, m1.contexts[id], id, settings)

onWillAppear(m, id, raw) ==
    LET m1 == getContext(m, id)
        c == m1.contexts[id]
        settings == parseSettings(raw)
    IN  IF ~m1.ok \/ ~settings.ok THEN m1
        ELSE updateView(updateStateFromSettings(m1, c, settings), c, id, settings, NoExact)

onWillDisappear(m, id) ==
    LET c == m.contexts[id]
        m1 == stopPauseAnimation(stopTimer(m, c), c)
        m2 == IF m1.heap[c].holdTimeout # 0
              THEN clearTimer(m1, m1.heap[c].holdTimeout) ELSE m1
    IN  IF c = 0 THEN m ELSE [m2 EXCEPT !.contexts[id] = 0]

\* mutant: remainingSeconds is decremented on a tick instead of recomputed
tickCallbackDecrement(m, h) ==
    LET t == m.timers[h]
        c == t.ctx
        diffMs == m.heap[c].targetEndTime - now
    IN  IF diffMs <= 0
        THEN handleTimerComplete(
                 [stopTimer(m, c) EXCEPT !.heap[c].remainingSeconds = 0],
                 c, t.id, t.settings)
        ELSE updateView([m EXCEPT !.heap[c].remainingSeconds = @ - 1],
                        c, t.id, t.settings, Exact(diffMs))

\* mutant: completion only once the deadline has passed (diffMs < 0)
tickCallbackLate(m, h) ==
    LET t == m.timers[h]
        c == t.ctx
        diffMs == m.heap[c].targetEndTime - now
        diffSec == diffMs \div 1000
    IN  IF diffMs < 0
        THEN handleTimerComplete(
                 [stopTimer(m, c) EXCEPT !.heap[c].remainingSeconds = 0],
                 c, t.id, t.settings)
        ELSE updateView([m EXCEPT !.heap[c].remainingSeconds = diffSec],
                        c, t.id, t.settings, Exact(diffMs))

\* mutant: Math.ceil in place of Math.floor
tickCallbackCeil(m, h) ==
    LET t == m.timers[h]
        c == t.ctx
        diffMs == m.heap[c].targetEndTime - now
        diffSec == (diffMs + 999) \div 1000
    IN  IF diffMs <= 0
        THEN handleTimerComplete(
                 [stopTimer(m, c) EXCEPT !.heap[c].remainingSeconds = 0],
                 c, t.id, t.settings)
        ELSE updateView([m EXCEPT !.heap[c].remainingSeconds = diffSec],
                        c, t.id, t.settings, Exact(diffMs))

\* mutant: the second in progress counts as elapsed
tickCallbackElapsedSecond(m, h) ==
    LET t == m.timers[h]
        c == t.ctx
        diffMs == m.heap[c].targetEndTime - now
        diffSec == (diffMs \div 1000) - 1
    IN  IF diffMs <= 0
        THEN handleTimerComplete(
                 [stopTimer(m, c) EXCEPT !.heap[c].remainingSeconds = 0],
                 c, t.id, t.settings)
        ELSE updateView([m EXCEPT !.heap[c].remainingSeconds = diffSec],
                        c, t.id, t.settings, Exact(diffMs))

\* the setInterval callback of startTimer, for the live interval h
tickCallback(m, h) ==
    LET t == m.timers[h]
        c == t.ctx
        diffMs == m.heap[c].targetEndTime - now
        diffSec == diffMs \div 1000
    IN  IF diffMs <= 0
        THEN handleTimerComplete(
                 [stopTimer(m, c) EXCEPT !.heap[c].remainingSeconds = 0],
                 c, t.id, t.settings)
        ELSE updateView([m EXCEPT !.heap[c].remainingSeconds = diffSec],
                        c, t.id, t.settings, Exact(diffMs))

\* the setInterval callback of startPauseAnimation, for the live interval h
pulseCallback(m, h) ==
    LET t == m.timers[h]
    IN  updateView(m, t.ctx, t.id, t.settings, NoExact)

----------------------------------------------------------------------------
(* The state machine *)

M0 == Machine(contexts, heap, timers, inflight)

\* the context object of id before a handler runs (the one getContext would create
\* when there is none)
\* live timers of one kind whose closure holds context object c
Live(kind, c) == {h \in Handles : timers[h].kind = kind /\ timers[h].ctx = c}

\* what the history keeps of context object c as it is before a step
\* (c = 0: the object getContext is about to create)
Snapshot(c) ==
    LET ctx == IF c = 0 THEN NewContext ELSE heap[c]
    IN  [state |-> ctx.state, currentCycle |-> ctx.currentCycle,
         remainingSeconds |-> ctx.remainingSeconds,
         targetEndTime |-> ctx.targetEndTime,
         timer |-> ctx.timer # 0,
         pauseAnimationTimer |-> ctx.pauseAnimationTimer # 0,
         didHoldAction |-> ctx.didHoldAction,
         ticks |-> Cardinality(Live("tick", c)),
         pulses |-> Cardinality(Live("pulse", c)),
         holds |-> Cardinality(Live("hold", c)),
         shown |-> EmptyLastState,
         pressed |-> ""]

\* the same, with the phase at the press-down whose timeout is pending for c
HeldSnapshot(c, id) == [Snapshot(c) EXCEPT !.pressed = press[id].state]

\* the same, with the signature c holds before a suspended render resumes
RenderSnapshot(c) == [Snapshot(c) EXCEPT !.shown = heap[c].lastState]

PreOf(id) == Snapshot(contexts[id])

\* history of a pause that is resumed, and then ticked, with no time elapsed:
\* the stage reached, and the phase and remainingSeconds when the pause began
NoChain == [stage |-> "none", id |-> "", state |-> IDLE_WORK, r |-> 0]

NextChain(op, id, pre) ==
    IF op = "KeyUp" /\ ~pre.didHoldAction /\ pre.state \in {RUNNING_WORK, RUNNING_BREAK}
    THEN [stage |-> "paused", id |-> id, state |-> pre.state,
          r |-> pre.remainingSeconds]
    ELSE IF last.chain.stage = "none" \/ last.chain.id # id THEN NoChain
    ELSE IF op = "KeyUp" /\ ~pre.didHoldAction /\ last.chain.stage = "paused"
    THEN [last.chain EXCEPT !.stage = "resumed"]
    ELSE IF op = "Tick" /\ last.chain.stage = "resumed"
    THEN [last.chain EXCEPT !.stage = "ticked"]
    ELSE IF op \in {"KeyDown", "ResumeRender", "PulseTick"} THEN last.chain
    ELSE NoChain

\* state is the phase at the press-down while its timeout may still fire, "" otherwise
NoPress == [long |-> 0, short |-> 0, state |-> ""]

Raw(id) == RawChoices[hostSettings[id]]

\* the run ends: its effects become the state, and the step is recorded
Commit(m, op, id, c, pre, settings) ==
    /\ m.ok
    /\ contexts' = m.contexts
    /\ heap' = Collect(m).heap
    /\ timers' = m.timers
    /\ inflight' = m.inflight
    /\ last' = [op |-> op, id |-> id, ctx |-> c, pre |-> pre, calls |-> m.calls,
                at |-> now, settings |-> settings,
                chain |-> NextChain(op, id, pre)]

\* the state after construction, in a process whose process.platform is p
InitOn(p) ==
    /\ now = 0
    /\ platform = p
    /\ present = [id \in AllIds |-> FALSE]
    /\ down = [id \in AllIds |-> FALSE]
    /\ hostSettings \in [AllIds -> RawIdx]
    /\ \A id \in AllIds \ Ids : hostSettings[id] = 1
    /\ contexts = [id \in AllIds |-> 0]
    /\ heap = [c \in CtxRefs |-> NewContext]
    /\ timers = [h \in Handles |-> NoTimer]
    /\ inflight = <<>>
    /\ press = [id \in AllIds |-> NoPress]
    /\ irregular = 0
    /\ last = [op |-> "Init", id |-> "", ctx |-> 0, pre |-> Snapshot(0),
               calls |-> <<>>, at |-> 0, settings |-> NoSettings, chain |-> NoChain]

Init == InitOn("darwin")

\* wall-clock time passes
Advance(t) ==
    /\ t > now
    /\ now' = t
    /\ last' = [op |-> "Advance", id |-> "", ctx |-> 0, pre |-> Snapshot(0),
                calls |-> <<>>, at |-> t, settings |-> NoSettings, chain |-> NoChain]
    /\ UNCHANGED <<irregular, platform, present, down, hostSettings, contexts, heap, timers,
                   inflight, press>>

\* host event: the key of id becomes visible
WillAppear(id) ==
    /\ ~present[id]
    /\ LET m == onWillAppear(M0, id, Raw(id))
       IN  Commit(m, "WillAppear", id, m.contexts[id], PreOf(id), parseSettings(Raw(id)))
    /\ present' = [present EXCEPT ![id] = TRUE]
    /\ UNCHANGED <<irregular, now, platform, down, hostSettings, press>>

\* host event: the key of id is no longer visible
WillDisappear(id) ==
    /\ present[id]
    /\ Commit(onWillDisappear(M0, id), "WillDisappear", id, contexts[id], PreOf(id),
              NoSettings)
    /\ present' = [present EXCEPT ![id] = FALSE]
    /\ down' = [down EXCEPT ![id] = FALSE]
    /\ press' = [press EXCEPT ![id].state = ""]
    /\ UNCHANGED <<irregular, now, platform, hostSettings>>

\* host event: the settings of id were edited to RawChoices[r]
DidReceiveSettings(id, r) ==
    /\ present[id]
    /\ LET m == onDidReceiveSettings(M0, id, RawChoices[r])
       IN  Commit(m, "DidReceiveSettings", id, m.contexts[id], PreOf(id),
                  parseSettings(RawChoices[r]))
    /\ hostSettings' = [hostSettings EXCEPT ![id] = r]
    /\ UNCHANGED <<irregular, now, platform, present, down, press>>

\* host event: press-down; state is what the history keeps of the phase
KeyDownFrom(id, state) ==
    /\ present[id]
    /\ ~down[id]
    /\ LET m == onKeyDown(M0, id, Raw(id))
       IN  Commit(m, "KeyDown", id, m.contexts[id], PreOf(id), parseSettings(Raw(id)))
    /\ down' = [down EXCEPT ![id] = TRUE]
    /\ press' = [press EXCEPT ![id] = [NoPress EXCEPT !.state = state]]
    /\ UNCHANGED <<irregular, now, platform, present, hostSettings>>

KeyDown(id) == KeyDownFrom(id, "")

\* host event: press-up
KeyUp(id) ==
    /\ present[id]
    /\ down[id]
    /\ LET m == onKeyUp(M0, id, Raw(id))
       IN  Commit(m, "KeyUp", id, m.contexts[id], PreOf(id), parseSettings(Raw(id)))
    /\ down' = [down EXCEPT ![id] = FALSE]
    /\ press' = [press EXCEPT ![id].short =
                    IF KeyUpIsShortPress(M0, id, Raw(id)) THEN @ + 1 ELSE @,
                                ![id].state = ""]
    /\ UNCHANGED <<irregular, now, platform, present, hostSettings>>

\* the long-press timeout h fires
HoldFire(h) ==
    /\ timers[h].kind = "hold"
    /\ Commit(holdCallback(M0, h), "HoldFire", timers[h].id, timers[h].ctx,
              HeldSnapshot(timers[h].ctx, timers[h].id), timers[h].settings)
    /\ press' = [press EXCEPT ![timers[h].id].long = @ + 1,
                                ![timers[h].id].state = ""]
    /\ UNCHANGED <<irregular, now, platform, present, down, hostSettings>>

\* the countdown interval h fires
Tick(h) ==
    /\ timers[h].kind = "tick"
    /\ Commit(tickCallback(M0, h), "Tick", timers[h].id, timers[h].ctx,
              Snapshot(timers[h].ctx), timers[h].settings)
    /\ UNCHANGED <<irregular, now, platform, present, down, hostSettings, press>>

\* the pause-pulse interval h fires
PulseTick(h) ==
    /\ timers[h].kind = "pulse"
    /\ Commit(pulseCallback(M0, h), "PulseTick", timers[h].id, timers[h].ctx,
              Snapshot(timers[h].ctx), timers[h].settings)
    /\ UNCHANGED <<irregular, now, platform, present, down, hostSettings, press>>

\* the setTitle promise of the oldest suspended updateView settles
ResumeRenderFrom(pre) ==
    /\ inflight # <<>>
    /\ LET r == Head(inflight)
           m == resumeUpdateView([M0 EXCEPT !.inflight = Tail(inflight)], r)
       IN  Commit(m, "ResumeRender", r.id, r.ctx, pre, r.settings)
    /\ UNCHANGED <<irregular, now, platform, present, down, hostSettings, press>>

ResumeRender == ResumeRenderFrom(Snapshot(Head(inflight).ctx))

\* at most MaxInflight updateView calls are suspended after the step
Within == Len(inflight') <= MaxInflight

Next ==
    \/ \E t \in Instants : Advance(t)
    \/ \E id \in Ids : WillAppear(id) /\ Within
    \/ \E id \in Ids : WillDisappear(id)
    \/ \E id \in Ids, r \in RawIdx : DidReceiveSettings(id, r) /\ Within
    \/ \E id \in Ids : KeyDown(id)
    \/ \E id \in Ids : KeyUp(id) /\ Within
    \/ \E h \in Handles : HoldFire(h) /\ Within
    \/ \E h \in Handles : Tick(h) /\ Within
    \/ \E h \in Handles : PulseTick(h) /\ Within
    \/ ResumeRender

\* any event or callback may run while an updateView is suspended
Spec == Init /\ [][Next]_vars

\* no updateView is suspended
Settled == inflight = <<>>

PromptAdvance(t) == Settled /\ Advance(t)
PromptWillAppear(id) == Settled /\ WillAppear(id)
PromptWillDisappear(id) == Settled /\ WillDisappear(id)
PromptDidReceiveSettings(id, r) == Settled /\ DidReceiveSettings(id, r)
PromptKeyDown(id) == Settled /\ KeyDown(id)
PromptKeyUp(id) == Settled /\ KeyUp(id)
PromptHoldFire(h) == Settled /\ HoldFire(h)
PromptTick(h) == Settled /\ Tick(h)
PromptPulseTick(h) == Settled /\ PulseTick(h)

\* the setTitle promise settles before the next event or timer callback is
\* dispatched, so no handler runs while an updateView is suspended
NextPrompt ==
    \/ \E t \in LongInstants : PromptAdvance(t)
    \/ \E id \in Ids : PromptWillAppear(id)
    \/ \E id \in Ids : PromptWillDisappear(id)
    \/ \E id \in Ids, r \in RawIdx : PromptDidReceiveSettings(id, r)
    \/ \E id \in Ids : PromptKeyDown(id)
    \/ \E id \in Ids : PromptKeyUp(id)
    \/ \E h \in Handles : PromptHoldFire(h)
    \/ \E h \in Handles : PromptTick(h)
    \/ \E h \in Handles : PromptPulseTick(h)
    \/ ResumeRender

SpecPrompt == Init /\ [][NextPrompt]_vars

\* The same, with the history keeping the phase each press-down arrived in.
HeldKeyDown(id) == Settled /\ KeyDownFrom(id, PreOf(id).state)

NextHold ==
    \/ \E t \in LongInstants : PromptAdvance(t)
    \/ \E id \in Ids : PromptWillAppear(id)
    \/ \E id \in Ids : PromptWillDisappear(id)
    \/ \E id \in Ids, r \in RawIdx : PromptDidReceiveSettings(id, r)
    \/ \E id \in Ids : HeldKeyDown(id)
    \/ \E id \in Ids : PromptKeyUp(id)
    \/ \E h \in Handles : PromptHoldFire(h)
    \/ \E h \in Handles : PromptTick(h)
    \/ \E h \in Handles : PromptPulseTick(h)
    \/ ResumeRender

SpecHold == Init /\ [][NextHold]_vars

\* Renders racing with handlers: any event or callback may run while up to
\* MaxRenders updateView calls are suspended; setTitle promises settle in the
\* order the calls were issued. The history keeps the signature a resuming
\* render finds stored.
RaceResumeRender == ResumeRenderFrom(RenderSnapshot(Head(inflight).ctx))

NextRace ==
    \/ \E t \in PairInstants : Advance(t)
    \/ \E id \in Ids : WillAppear(id)
    \/ \E id \in Ids : WillDisappear(id)
    \/ \E id \in Ids, r \in RawIdx : DidReceiveSettings(id, r)
    \/ \E id \in Ids : KeyDown(id)
    \/ \E id \in Ids : KeyUp(id)
    \/ \E h \in Handles : HoldFire(h)
    \/ \E h \in Handles : Tick(h)
    \/ \E h \in Handles : PulseTick(h)
    \/ RaceResumeRender

SpecRace == Init /\ [][NextRace]_vars

\* The handlers under a host that keeps no protocol: any event for any id at any
\* time, repeated or out of order (appear for a visible id, press-down for a held
\* key, events for an id that never appeared). present and down record the last
\* appear/disappear and press-down/press-up seen, irregular counts the host
\* events from the first one that a host keeping the protocol would not have sent.
Counted(regular) ==
    /\ irregular' = IF regular /\ irregular = 0 THEN 0 ELSE irregular + 1
    /\ irregular' <= MaxIrregular

FreeWillAppear(id) ==
    /\ Settled
    /\ Counted(~present[id])
    /\ LET m == onWillAppear(M0, id, Raw(id))
       IN  Commit(m, "WillAppear", id, m.contexts[id], PreOf(id), parseSettings(Raw(id)))
    /\ present' = [present EXCEPT ![id] = TRUE]
    /\ UNCHANGED <<now, platform, down, hostSettings, press>>

FreeWillDisappear(id) ==
    /\ Settled
    /\ Counted(present[id])
    /\ Commit(onWillDisappear(M0, id), "WillDisappear", id, contexts[id], PreOf(id),
              NoSettings)
    /\ present' = [present EXCEPT ![id] = FALSE]
    /\ down' = [down EXCEPT ![id] = FALSE]
    /\ press' = [press EXCEPT ![id].state = ""]
    /\ UNCHANGED <<now, platform, hostSettings>>

FreeDidReceiveSettings(id, r) ==
    /\ Settled
    /\ Counted(present[id])
    /\ LET m == onDidReceiveSettings(M0, id, RawChoices[r])
       IN  Commit(m, "DidReceiveSettings", id, m.contexts[id], PreOf(id),
                  parseSettings(RawChoices[r]))
    /\ hostSettings' = [hostSettings EXCEPT ![id] = r]
    /\ UNCHANGED <<now, platform, present, down, press>>

FreeKeyDown(id) ==
    /\ Settled
    /\ Counted(present[id] /\ ~down[id])
    /\ LET m == onKeyDown(M0, id, Raw(id))
       IN  Commit(m, "KeyDown", id, m.contexts[id], PreOf(id), parseSettings(Raw(id)))
    /\ down' = [down EXCEPT ![id] = TRUE]
    /\ press' = [press EXCEPT ![id] = NoPress]
    /\ UNCHANGED <<now, platform, present, hostSettings>>

FreeKeyUp(id) ==
    /\ Settled
    /\ Counted(present[id] /\ down[id])
    /\ LET m == onKeyUp(M0, id, Raw(id))
       IN  Commit(m, "KeyUp", id, m.contexts[id], PreOf(id), parseSettings(Raw(id)))
    /\ down' = [down EXCEPT ![id] = FALSE]
    /\ press' = [press EXCEPT ![id].short =
                    IF KeyUpIsShortPress(M0, id, Raw(id)) THEN @ + 1 ELSE @,
                                ![id].state = ""]
    /\ UNCHANGED <<now, platform, present, hostSettings>>

NextFree ==
    \/ \E t \in FreeInstants : PromptAdvance(t)
    \/ \E id \in Ids : FreeWillAppear(id)
    \/ \E id \in Ids : FreeWillDisappear(id)
    \/ \E id \in Ids, r \in RawIdx : FreeDidReceiveSettings(id, r)
    \/ \E id \in Ids : FreeKeyDown(id)
    \/ \E id \in Ids : FreeKeyUp(id)
    \/ \E h \in Handles : PromptHoldFire(h)
    \/ \E h \in Handles : PromptTick(h)
    \/ \E h \in Handles : PromptPulseTick(h)
    \/ ResumeRender

SpecFree == Init /\ [][NextFree]_vars

\* Several keys of the action on the device at once: every event may come for
\* either id, the host keeps the protocol for each id, renders settle promptly.
\* Both keys hold RawChoices[1]; a settings event delivers the stored settings.
\* One key is held at a time: a press-down comes while no key is down, and every
\* other event or callback of either id may come during the press.
InitPair == Init /\ \A id \in AllIds : hostSettings[id] = 1

PairKeyDown(id) == (\A j \in AllIds : ~down[j]) /\ PromptKeyDown(id)

NextPair ==
    \/ \E t \in PairInstants : PromptAdvance(t)
    \/ \E id \in AllIds : PromptWillAppear(id)
    \/ \E id \in AllIds : PromptWillDisappear(id)
    \/ \E id \in AllIds : PromptDidReceiveSettings(id, hostSettings[id])
    \/ \E id \in AllIds : PairKeyDown(id)
    \/ \E id \in AllIds : PromptKeyUp(id)
    \/ \E h \in Handles : PromptHoldFire(h)
    \/ \E h \in Handles : PromptTick(h)
    \/ \E h \in Handles : PromptPulseTick(h)
    \/ ResumeRender

SpecPair == InitPair /\ [][NextPair]_vars

\* The plugin on any platform of the host application: process.platform is macOS
\* or Windows; the host keeps the protocol, renders settle promptly.
Platforms == {"darwin", "win32"}

InitPlatform == \E p \in Platforms : InitOn(p)

NextPlatform ==
    \/ \E t \in Instants : PromptAdvance(t)
    \/ \E id \in Ids : PromptWillAppear(id)
    \/ \E id \in Ids : PromptWillDisappear(id)
    \/ \E id \in Ids, r \in RawIdx : PromptDidReceiveSettings(id, r)
    \/ \E id \in Ids : PromptKeyDown(id)
    \/ \E id \in Ids : PromptKeyUp(id)
    \/ \E h \in Handles : PromptHoldFire(h)
    \/ \E h \in Handles : PromptTick(h)
    \/ \E h \in Handles : PromptPulseTick(h)
    \/ ResumeRender

SpecPlatform == InitPlatform /\ [][NextPlatform]_vars

\* The runtime keeps its promises: a live interval fires again and again, a
\* pending promise settles, and the wall clock moves on (up to the last instant
\* of the model). Host events come or stay away as the host likes.
NextLive ==
    \/ \E t \in PairInstants : PromptAdvance(t)
    \/ \E id \in Ids : PromptWillAppear(id)
    \/ \E id \in Ids : PromptWillDisappear(id)
    \/ \E id \in Ids, r \in RawIdx : PromptDidReceiveSettings(id, r)
    \/ \E id \in Ids : PromptKeyDown(id)
    \/ \E id \in Ids : PromptKeyUp(id)
    \/ \E h \in Handles : PromptHoldFire(h)
    \/ \E h \in Handles : PromptTick(h)
    \/ \E h \in Handles : PromptPulseTick(h)
    \/ ResumeRender

ClockMoves == \E t \in PairInstants : PromptAdvance(t)
IntervalFires == \E h \in Handles : PromptTick(h)

SpecLive ==
    /\ Init
    /\ [][NextLive]_vars
    /\ SF_vars(ClockMoves)
    /\ WF_vars(IntervalFires)
    /\ WF_vars(ResumeRender)

----------------------------------------------------------------------------
(* The pure functions of Timer applied to inputs of every kind *)

\* strings the property inspector or a hand-edited profile can hold in a field
NumericStrings == {ToDecimal(n) : n \in 0..MaxNumber}
NegativeStrings == {<<"-">> \o ToDecimal(n) : n \in 1..MaxNumber}
Unparsable == {<<>>, <<"a">>, <<"a", "1">>, <<"-">>, <<" ">>, <<".", "5">>}
OtherStrings == {<<" ", "7">>, <<"1", "2", "a">>, <<"1", ".", "5">>, <<"+", "3">>,
                 <<"0", "3">>}

\* values of a field the schema declares as an optional string
StringFieldInputs ==
    {Undef, Null, Num(<<"2", "5">>), Bool(TRUE)}
        \cup {Str(s) : s \in NumericStrings \cup NegativeStrings \cup Unparsable
                                \cup OtherStrings}

\* values of the field the schema declares as an optional boolean
BooleanFieldInputs == {Undef, Null, Bool(TRUE), Bool(FALSE), Str(<<"t", "r", "u", "e">>),
                       Num(<<"1">>)}

FieldNames == {"workTime", "breakTime", "numCycles"}

\* settings values of a payload: absent, or an object with one string field set
\* and a soundEnabled field
RawInputs ==
    {Undef, Null}
        \cup {[[EmptyObject EXCEPT ![k] = f] EXCEPT !.soundEnabled = b] :
                 k \in FieldNames, f \in StringFieldInputs, b \in BooleanFieldInputs}

\* parseSettings is applied to a raw settings value
Resolve(raw) ==
    /\ last.op = "Init"
    /\ last' = [op |-> "parseSettings", raw |-> raw, object |-> OrEmptyObject(raw),
                settings |-> parseSettings(raw)]
    /\ UNCHANGED <<now, platform, present, down, hostSettings, contexts, heap, timers,
                   inflight, press, irregular>>

\* getTotalSecondsForCurrentState is applied to a context in a phase and to
\* resolved settings
Total(state, workTime, breakTime) ==
    LET ctx == [NewContext EXCEPT !.state = state]
        settings == [ok |-> TRUE, workTime |-> workTime, breakTime |-> breakTime,
                     numCycles |-> DEFAULT_NUM_CYCLES, soundEnabled |-> FALSE]
    IN  /\ last.op = "Init"
        /\ last' = [op |-> "getTotalSecondsForCurrentState", state |-> state,
                    settings |-> settings,
                    total |-> getTotalSecondsForCurrentState(ctx, settings)]
        /\ UNCHANGED <<now, platform, present, down, hostSettings, contexts, heap,
                       timers, inflight, press, irregular>>

\* formatTime is applied to a number of whole seconds
Format(seconds) ==
    /\ last.op = "Init"
    /\ last' = [op |-> "formatTime", seconds |-> seconds, text |-> formatTime(seconds)]
    /\ UNCHANGED <<now, platform, present, down, hostSettings, contexts, heap, timers,
                   inflight, press, irregular>>

NextPure ==
    \/ \E raw \in RawInputs : Resolve(raw)
    \/ \E state \in TimerState, w \in 1..MaxMinutes, b \in 1..MaxMinutes :
          Total(state, w, b)
    \/ \E seconds \in 0..MaxSeconds : Format(seconds)

SpecPure == Init /\ [][NextPure]_vars

----------------------------------------------------------------------------
(* The Timer of src/src/actions/timer.ts: its cycle index and the dots it draws *)

\* parseInt(settings.numCycles ?? "4") || 4, the modulus of handleTimerComplete
OldWrapCycles(field) ==
    LET parsed == ParseOr(field, <<"4">>)
    IN  IF parsed.nan \/ parsed.n = 0 THEN DEFAULT_NUM_CYCLES ELSE parsed.n

\* Math.min(4, Math.max(1, parseInt(..) || 4)), the number of dots of updateView
OldDrawnCycles(field) == Min(MAX_CYCLES, Max(MIN_CYCLES, OldWrapCycles(field)))

\* a % b of JavaScript for a >= 0: the sign of the dividend, the size of the divisor
JsRemainder(a, b) == a % (IF b < 0 THEN 0 - b ELSE b)

OldFieldInputs ==
    {Undef} \cup {Str(s) : s \in NumericStrings \cup NegativeStrings \cup Unparsable
                                  \cup OtherStrings}

\* an instance of the older Timer with a numCycles setting, in its first cycle
OldAppear(field) ==
    /\ last.op = "Init"
    /\ last' = [op |-> "old.onWillAppear", numCycles |-> field, currentCycle |-> 0,
                completions |-> 0]
    /\ UNCHANGED <<now, platform, present, down, hostSettings, contexts, heap, timers,
                   inflight, press, irregular>>

\* handleTimerComplete of the older Timer in a break phase
OldBreakComplete ==
    /\ last.op \in {"old.onWillAppear", "old.handleTimerComplete", "old.reset"}
    /\ last.completions < MaxCompletions
    /\ last' = [last EXCEPT
                  !.op = "old.handleTimerComplete",
                  !.currentCycle = JsRemainder(@ + 1, OldWrapCycles(last.numCycles)),
                  !.completions = @ + 1]
    /\ UNCHANGED <<now, platform, present, down, hostSettings, contexts, heap, timers,
                   inflight, press, irregular>>

\* reset of the older Timer (long press, settings change)
OldReset ==
    /\ last.op = "old.handleTimerComplete"
    /\ last' = [last EXCEPT !.op = "old.reset", !.currentCycle = 0]
    /\ UNCHANGED <<now, platform, present, down, hostSettings, contexts, heap, timers,
                   inflight, press, irregular>>

NextOld ==
    \/ \E field \in OldFieldInputs : OldAppear(field)
    \/ OldBreakComplete
    \/ OldReset

SpecOld == Init /\ [][NextOld]_vars

----------------------------------------------------------------------------
(* The Pomodoro action of src/src/actions/pomodoro.ts, registered by plugin.ts as
   one object for all keys: its state is the fields of that object. The object is
   kept in the history record; holds is the set of pending long-press timeouts,
   each named by the id of the press-down event its closure keeps. *)

NewPomodoro ==
    [state |-> IDLE_WORK, currentCycle |-> 0, targetEndTime |-> 0,
     remainingSeconds |-> INITIAL_REMAINING, timer |-> "", pauseAnimationTimer |-> "",
     holdTimeout |-> "", didHoldAction |-> FALSE, holds |-> {}]

\* the object before a step
Pom == IF last.op = "Init" THEN NewPomodoro ELSE last.pom

\* parseInt(field ?? dflt) || n
PomParse(field, dflt, n) ==
    LET parsed == ParseOr(field, dflt)
    IN  IF parsed.nan \/ parsed.n = 0 THEN n ELSE parsed.n

\* the settings in the payload of an event for id
PomSettings(id) ==
    [workMins |-> PomParse(Raw(id).workTime, <<"2", "5">>, DEFAULT_WORK_MINS),
     breakMins |-> PomParse(Raw(id).breakTime, <<"5">>, DEFAULT_BREAK_MINS),
     numCycles |-> PomParse(Raw(id).numCycles, <<"4">>, DEFAULT_NUM_CYCLES)]

pomStartTimer(o, id, durationSeconds) ==
    [o EXCEPT !.pauseAnimationTimer = "",
              !.targetEndTime = now + durationSeconds * 1000,
              !.timer = id]

pomReset(o, id) ==
    [o EXCEPT !.timer = "", !.pauseAnimationTimer = "", !.state = IDLE_WORK,
              !.currentCycle = 0,
              !.remainingSeconds = PomSettings(id).workMins * 60]

pomHandleTimerComplete(o, id) ==
    IF o.state \in {RUNNING_WORK, PAUSED_WORK}
    THEN [o EXCEPT !.state = IDLE_BREAK,
                   !.remainingSeconds = PomSettings(id).breakMins * 60]
    ELSE IF o.state \in {RUNNING_BREAK, PAUSED_BREAK}
    THEN [o EXCEPT !.state = IDLE_WORK,
                   !.currentCycle = JsRemainder(@ + 1, PomSettings(id).numCycles),
                   !.remainingSeconds = PomSettings(id).workMins * 60]
    ELSE o

pomHandleShortPress(o, id) ==
    CASE o.state = IDLE_WORK ->
            pomStartTimer([o EXCEPT !.state = RUNNING_WORK,
                                    !.remainingSeconds = PomSettings(id).workMins * 60],
                          id, PomSettings(id).workMins * 60)
      [] o.state = RUNNING_WORK ->
            [o EXCEPT !.state = PAUSED_WORK, !.timer = "", !.pauseAnimationTimer = id]
      [] o.state = PAUSED_WORK ->
            pomStartTimer([o EXCEPT !.state = RUNNING_WORK], id, o.remainingSeconds)
      [] o.state = IDLE_BREAK ->
            pomStartTimer([o EXCEPT !.state = RUNNING_BREAK,
                                    !.remainingSeconds = PomSettings(id).breakMins * 60],
                          id, PomSettings(id).breakMins * 60)
      [] o.state = RUNNING_BREAK ->
            [o EXCEPT !.state = PAUSED_BREAK, !.timer = "", !.pauseAnimationTimer = id]
      [] o.state = PAUSED_BREAK ->
            pomStartTimer([o EXCEPT !.state = RUNNING_BREAK], id, o.remainingSeconds)

\* a handler or callback of the object has run for id
PomStep(op, id, o) ==
    /\ last' = [op |-> op, id |-> id, pre |-> Pom, pom |-> o,
                others |-> {i \in AllIds \ {id} : present[i]}]
    /\ UNCHANGED <<platform, hostSettings, contexts, heap, timers, inflight, press,
                   irregular>>

PomAdvance(t) ==
    /\ t > now
    /\ now' = t
    /\ PomStep("Advance", "", Pom)
    /\ UNCHANGED <<present, down>>

PomWillAppear(id) ==
    /\ ~present[id]
    /\ present' = [present EXCEPT ![id] = TRUE]
    /\ PomStep("WillAppear", id,
               IF Pom.state = IDLE_WORK
               THEN [Pom EXCEPT !.remainingSeconds = PomSettings(id).workMins * 60]
               ELSE IF Pom.state = IDLE_BREAK
               THEN [Pom EXCEPT !.remainingSeconds = PomSettings(id).breakMins * 60]
               ELSE Pom)
    /\ UNCHANGED <<now, down>>

\* the class has no onWillDisappear: the object is left as it is
PomWillDisappear(id) ==
    /\ present[id]
    /\ present' = [present EXCEPT ![id] = FALSE]
    /\ down' = [down EXCEPT ![id] = FALSE]
    /\ PomStep("WillDisappear", id, Pom)
    /\ UNCHANGED now

PomDidReceiveSettings(id) ==
    /\ present[id]
    /\ PomStep("DidReceiveSettings", id, pomReset(Pom, id))
    /\ UNCHANGED <<now, present, down>>

PomKeyDown(id) ==
    /\ present[id]
    /\ ~down[id]
    /\ down' = [down EXCEPT ![id] = TRUE]
    /\ PomStep("KeyDown", id,
               [Pom EXCEPT !.didHoldAction = FALSE, !.holdTimeout = id,
                           !.holds = @ \cup {id}])
    /\ UNCHANGED <<now, present>>

PomKeyUp(id) ==
    /\ present[id]
    /\ down[id]
    /\ down' = [down EXCEPT ![id] = FALSE]
    /\ LET o == [Pom EXCEPT !.holds = @ \ {Pom.holdTimeout}, !.holdTimeout = ""]
       IN  PomStep("KeyUp", id,
                   IF o.didHoldAction THEN o ELSE pomHandleShortPress(o, id))
    /\ UNCHANGED <<now, present>>

\* the long-press timeout armed by the press-down of id fires
PomHoldFire(id) ==
    /\ id \in Pom.holds
    /\ LET o == [Pom EXCEPT !.holds = @ \ {id}, !.didHoldAction = TRUE]
       IN  PomStep("HoldFire", id,
                   IF o.state \in {PAUSED_WORK, PAUSED_BREAK}
                   THEN pomHandleTimerComplete([o EXCEPT !.pauseAnimationTimer = ""], id)
                   ELSE pomReset(o, id))
    /\ UNCHANGED <<now, present, down>>

\* the countdown interval fires
PomTick ==
    /\ Pom.timer # ""
    /\ LET diffMs == Pom.targetEndTime - now
       IN  PomStep("Tick", Pom.timer,
                   IF diffMs <= 0
                   THEN pomHandleTimerComplete(
                            [Pom EXCEPT !.timer = "", !.remainingSeconds = 0], Pom.timer)
                   ELSE [Pom EXCEPT !.remainingSeconds = diffMs \div 1000])
    /\ UNCHANGED <<now, present, down>>

NextPom ==
    \/ \E t \in PairInstants : PomAdvance(t)
    \/ \E id \in AllIds : PomWillAppear(id)
    \/ \E id \in AllIds : PomWillDisappear(id)
    \/ \E id \in AllIds : PomDidReceiveSettings(id)
    \/ \E id \in AllIds : PomKeyDown(id)
    \/ \E id \in AllIds : PomKeyUp(id)
    \/ \E id \in AllIds : PomHoldFire(id)
    \/ PomTick

SpecPom == Init /\ [][NextPom]_vars

----------------------------------------------------------------------------
(* Vocabulary of the properties *)

\* the context object the last step acted on, as it is now
Post == heap[last.ctx]

\* the settings the host holds for the instance of the last step
Current == parseSettings(Raw(last.id))

\* the countdown of c is scheduled: one live interval, the one ctx.timer names
CountdownScheduled(c) ==
    /\ Cardinality(Live("tick", c)) = 1
    /\ heap[c].timer \in Live("tick", c)

CountdownCancelled(c) == Live("tick", c) = {} /\ heap[c].timer = 0

PulseScheduled(c) ==
    /\ Cardinality(Live("pulse", c)) = 1
    /\ heap[c].pauseAnimationTimer \in Live("pulse", c)

PulseCancelled(c) == Live("pulse", c) = {} /\ heap[c].pauseAnimationTimer = 0

\* the last step was a press-up that came before the long-press timeout fired
ShortPress == last.op = "KeyUp" /\ ~last.pre.didHoldAction

\* the last step was a countdown tick that observed now >= targetEndTime
Expiry == last.op = "Tick" /\ last.at >= last.pre.targetEndTime

----------------------------------------------------------------------------
(* C1: a short press on IdleWork gives RunningWork with remainingSeconds =
   workMinutes*60 and a scheduled countdown ending that many seconds from now;
   a short press on IdleBreak gives RunningBreak with breakMinutes*60 likewise. *)
C1_ShortPressStarts ==
    /\ (ShortPress /\ last.pre.state = IDLE_WORK) =>
          /\ Post.state = RUNNING_WORK
          /\ Post.remainingSeconds = Current.workTime * 60
          /\ CountdownScheduled(last.ctx)
          /\ Post.targetEndTime = now + Current.workTime * 60 * 1000
    /\ (ShortPress /\ last.pre.state = IDLE_BREAK) =>
          /\ Post.state = RUNNING_BREAK
          /\ Post.remainingSeconds = Current.breakTime * 60
          /\ CountdownScheduled(last.ctx)
          /\ Post.targetEndTime = now + Current.breakTime * 60 * 1000

C1_Witness ==
    /\ ShortPress
    /\ last.pre.state = IDLE_BREAK
    /\ Post.state = RUNNING_BREAK
    /\ Post.remainingSeconds = 60

(* C2: a tick of a RunningWork countdown that observes now >= targetEndTime
   cancels the countdown and leaves the instance in IdleBreak with
   remainingSeconds = breakMinutes*60 and cycleIndex unchanged. *)
C2_WorkExpiry ==
    (Expiry /\ last.pre.state = RUNNING_WORK) =>
        /\ Post.state = IDLE_BREAK
        /\ Post.remainingSeconds = Current.breakTime * 60
        /\ Post.currentCycle = last.pre.currentCycle
        /\ CountdownCancelled(last.ctx)

C2_Witness ==
    /\ Expiry
    /\ last.pre.state = RUNNING_WORK
    /\ last.pre.currentCycle = 1
    /\ Post.state = IDLE_BREAK

(* C3: a tick of a RunningBreak countdown that observes now >= targetEndTime
   cancels the countdown and leaves the instance in IdleWork with
   remainingSeconds = workMinutes*60 and cycleIndex = (old + 1) mod cycleCount,
   so the index returns to 0 after the last cycle. *)
C3_BreakExpiry ==
    (Expiry /\ last.pre.state = RUNNING_BREAK) =>
        /\ Post.state = IDLE_WORK
        /\ Post.remainingSeconds = Current.workTime * 60
        /\ Post.currentCycle = (last.pre.currentCycle + 1) % Current.numCycles
        /\ Post.currentCycle \in 0..(Current.numCycles - 1)
        /\ CountdownCancelled(last.ctx)

\* with cycleCount = 4 the break of cycleIndex 3 has completed and the index is 0
\* again
C3_Witness ==
    /\ Expiry
    /\ last.pre.state = RUNNING_BREAK
    /\ Current.numCycles = 4
    /\ last.pre.currentCycle = 3
    /\ Post.state = IDLE_WORK
    /\ Post.currentCycle = 0

(* C4: a short press on a Running phase gives the Paused phase of the same family,
   cancels the countdown, schedules the pause-pulse and keeps remainingSeconds and
   cycleIndex; a short press on a Paused phase gives the Running phase of the same
   family, cancels the pause-pulse and schedules a countdown with
   targetEndTime = now + remainingSeconds*1000. *)
PausedOf(state) == IF state = RUNNING_WORK THEN PAUSED_WORK ELSE PAUSED_BREAK
RunningOf(state) == IF state = PAUSED_WORK THEN RUNNING_WORK ELSE RUNNING_BREAK

C4_PauseResume ==
    /\ (ShortPress /\ IsRunning(last.pre.state)) =>
          /\ Post.state = PausedOf(last.pre.state)
          /\ CountdownCancelled(last.ctx)
          /\ PulseScheduled(last.ctx)
          /\ Post.remainingSeconds = last.pre.remainingSeconds
          /\ Post.currentCycle = last.pre.currentCycle
    /\ (ShortPress /\ IsPaused(last.pre.state)) =>
          /\ Post.state = RunningOf(last.pre.state)
          /\ PulseCancelled(last.ctx)
          /\ CountdownScheduled(last.ctx)
          /\ Post.targetEndTime = now + last.pre.remainingSeconds * 1000
          /\ Post.remainingSeconds = last.pre.remainingSeconds
          /\ Post.currentCycle = last.pre.currentCycle

C4_Witness ==
    /\ ShortPress
    /\ last.pre.state = PAUSED_BREAK
    /\ Post.state = RUNNING_BREAK
    /\ Post.remainingSeconds = 59
    /\ last.pre.currentCycle = 1

\* the instance of id, as it is now
Ctx(id) == heap[contexts[id]]

(* C5 as stated: pausing a Running instance with remainingSeconds = r and resuming
   it with no time elapsed leaves the same Running phase with remainingSeconds = r,
   and the first tick, still with no time elapsed, yields remainingSeconds = r,
   for every r. *)
C5_AnyRemaining ==
    last.chain.stage \in {"resumed", "ticked"} =>
        /\ Ctx(last.chain.id).state = last.chain.state
        /\ Ctx(last.chain.id).remainingSeconds = last.chain.r

(* C5 as amended: the same for r >= 1; for r = 0 the resumed phase is Running with
   remainingSeconds = 0 and its first tick completes the phase. *)
C5_PositiveRemaining ==
    /\ last.chain.stage = "resumed" =>
          /\ Ctx(last.chain.id).state = last.chain.state
          /\ Ctx(last.chain.id).remainingSeconds = last.chain.r
          /\ Ctx(last.chain.id).targetEndTime = now + last.chain.r * 1000
    /\ (last.chain.stage = "ticked" /\ last.chain.r >= 1) =>
          /\ Ctx(last.chain.id).state = last.chain.state
          /\ Ctx(last.chain.id).remainingSeconds = last.chain.r
    /\ (last.chain.stage = "ticked" /\ last.chain.r = 0) =>
          /\ IsIdle(Ctx(last.chain.id).state)
          /\ IsWorkFamily(Ctx(last.chain.id).state) # IsWorkFamily(last.chain.state)

C5_Witness ==
    /\ last.chain.stage = "ticked"
    /\ last.chain.r = 59
    /\ last.op = "Tick"
    /\ Ctx(last.chain.id).remainingSeconds = 59

\* what a countdown expiry in a Running phase leaves (C2, C3)
NaturalExpiry(state, cycle, settings) ==
    IF state = RUNNING_WORK
    THEN [state |-> IDLE_BREAK, currentCycle |-> cycle,
          remainingSeconds |-> settings.breakTime * 60]
    ELSE [state |-> IDLE_WORK, currentCycle |-> (cycle + 1) % settings.numCycles,
          remainingSeconds |-> settings.workTime * 60]

Outcome(ctx) == [state |-> ctx.state, currentCycle |-> ctx.currentCycle,
                 remainingSeconds |-> ctx.remainingSeconds]

(* C6: when the long-press timeout fires in PausedWork or PausedBreak, phase,
   cycleIndex and remainingSeconds become what a countdown expiry from the Running
   phase of the same family gives, and afterwards neither the countdown nor the
   pause-pulse is scheduled. *)
C6_LongPressSkips ==
    (last.op = "HoldFire" /\ IsPaused(last.pre.state)) =>
        /\ Outcome(Post) = NaturalExpiry(RunningOf(last.pre.state),
                                         last.pre.currentCycle, Current)
        /\ CountdownCancelled(last.ctx)
        /\ PulseCancelled(last.ctx)

C6_Witness ==
    /\ last.op = "HoldFire"
    /\ last.pre.state = PAUSED_BREAK
    /\ last.pre.pulses = 1
    /\ Post.state = IDLE_WORK
    /\ Post.currentCycle = 1

(* C7: when the long-press timeout fires in an Idle or Running phase, the instance
   ends in IdleWork with cycleIndex = 0 and remainingSeconds = workMinutes*60, with
   neither the countdown nor the pause-pulse scheduled. *)
C7_LongPressResets ==
    (last.op = "HoldFire" /\ ~IsPaused(last.pre.state)) =>
        /\ Post.state = IDLE_WORK
        /\ Post.currentCycle = 0
        /\ Post.remainingSeconds = Current.workTime * 60
        /\ CountdownCancelled(last.ctx)
        /\ PulseCancelled(last.ctx)

\* what the code does in the case of C7: the reset loads the work minutes of the
\* settings read at press-down, which the timeout's closure holds
C7_ResetsToArmedSettings ==
    (last.op = "HoldFire" /\ ~IsPaused(last.pre.state)) =>
        /\ Post.state = IDLE_WORK
        /\ Post.currentCycle = 0
        /\ Post.remainingSeconds = last.settings.workTime * 60
        /\ CountdownCancelled(last.ctx)
        /\ PulseCancelled(last.ctx)

(* C8: in one press the long-press action is performed at most once, and a
   press-up that follows it performs no short-press action: phase, cycleIndex,
   remainingSeconds and the scheduled callbacks stay as they were, and nothing is
   sent to the host. *)
C8_LongPressOnce ==
    /\ \A id \in AllIds : press[id].long <= 1
    /\ (last.op = "KeyUp" /\ press[last.id].long >= 1) =>
          /\ press[last.id].short = 0
          /\ Outcome(Post) = Outcome(last.pre)
          /\ Cardinality(Live("tick", last.ctx)) = last.pre.ticks
          /\ Cardinality(Live("pulse", last.ctx)) = last.pre.pulses
          /\ (Post.timer # 0) = last.pre.timer
          /\ (Post.pauseAnimationTimer # 0) = last.pre.pauseAnimationTimer
          /\ last.calls = <<>>

C8_Witness ==
    /\ last.op = "KeyUp"
    /\ press[last.id].long = 1
    /\ Post.state = IDLE_BREAK
    /\ last.pre.state = IDLE_BREAK

\* the phase a short press leads to
TapTarget(state) ==
    CASE state = IDLE_WORK -> RUNNING_WORK
      [] state = RUNNING_WORK -> PAUSED_WORK
      [] state = PAUSED_WORK -> RUNNING_WORK
      [] state = IDLE_BREAK -> RUNNING_BREAK
      [] state = RUNNING_BREAK -> PAUSED_BREAK
      [] state = PAUSED_BREAK -> RUNNING_BREAK

(* C9: a press-up that arrives before the long-press timeout of its press has
   fired cancels the timeout, which then never fires (no timeout is pending while
   the key is up), and performs exactly the short-press action of the current
   phase; no press performs both a short-press and a long-press action. *)
C9_ShortPressCancels ==
    /\ \A id \in AllIds : press[id].long + press[id].short <= 1
    /\ \A h \in Handles : timers[h].kind = "hold" => down[timers[h].id]
    /\ (last.op = "KeyUp" /\ press[last.id].long = 0) =>
          /\ last.pre.holds = 1
          /\ Live("hold", last.ctx) = {}
          /\ Post.holdTimeout = 0
          /\ press[last.id].short = 1
          /\ Post.state = TapTarget(last.pre.state)

C9_Witness ==
    /\ last.op = "KeyUp"
    /\ press[last.id].long = 0
    /\ press[last.id].short = 1
    /\ last.pre.holds = 1
    /\ last.pre.state = RUNNING_WORK
    /\ Post.state = PAUSED_WORK

(* C10: while an id is not visible (after disappear, until it appears again) no
   set-title, set-image or completion-sound is issued for it and none of its
   callbacks is scheduled, including by renders that were suspended when the
   disappear event arrived. *)
C10_SilentAfterDisappear ==
    /\ \A i \in DOMAIN last.calls : present[last.calls[i].id]
    /\ \A h \in Handles : timers[h].kind # "none" => present[timers[h].id]

(* C11: after a settings-changed event, whatever the phase before it, the instance
   is in IdleWork with cycleIndex = 0 and remainingSeconds = workMinutes*60 of the
   settings the event carried, and neither the countdown nor the pause-pulse is
   scheduled. *)
C11_SettingsChangeResets ==
    last.op = "DidReceiveSettings" =>
        /\ Post.state = IDLE_WORK
        /\ Post.currentCycle = 0
        /\ Post.remainingSeconds = last.settings.workTime * 60
        /\ last.settings = Current
        /\ CountdownCancelled(last.ctx)
        /\ PulseCancelled(last.ctx)

\* a paused break of the second cycle is reset by an edit to 2 work minutes
C11_Witness ==
    /\ last.op = "DidReceiveSettings"
    /\ last.pre.state = PAUSED_BREAK
    /\ last.pre.currentCycle = 1
    /\ last.pre.pulses = 1
    /\ Post.state = IDLE_WORK
    /\ Post.remainingSeconds = 120

\* the instance of the last step is reset for the settings that step used
ResetDone ==
    /\ Post.state = IDLE_WORK
    /\ Post.currentCycle = 0
    /\ Post.remainingSeconds = last.settings.workTime * 60
    /\ CountdownCancelled(last.ctx)
    /\ PulseCancelled(last.ctx)

(* C12 as stated: after an appear event, whether or not the id already had an
   instance and whatever its phase, the instance is in IdleWork with cycleIndex = 0
   and remainingSeconds = workMinutes*60 of the event's settings, with neither the
   countdown nor the pause-pulse scheduled. *)
C12_AppearResets ==
    last.op = "WillAppear" => ResetDone

\* the last step left phase, cycleIndex, deadline and callbacks of its instance as
\* they were, and reloaded remainingSeconds only in an Idle phase
RefreshDone ==
    /\ Post.state = last.pre.state
    /\ Post.currentCycle = last.pre.currentCycle
    /\ Post.targetEndTime = last.pre.targetEndTime
    /\ Cardinality(Live("tick", last.ctx)) = last.pre.ticks
    /\ Cardinality(Live("pulse", last.ctx)) = last.pre.pulses
    /\ (Post.timer # 0) = last.pre.timer
    /\ (Post.pauseAnimationTimer # 0) = last.pre.pauseAnimationTimer
    /\ Post.remainingSeconds =
          CASE Post.state = IDLE_WORK -> last.settings.workTime * 60
            [] Post.state = IDLE_BREAK -> last.settings.breakTime * 60
            [] OTHER -> last.pre.remainingSeconds

(* C12 as amended: an appear event for an id without an instance creates one in
   IdleWork with cycleIndex = 0, remainingSeconds = workMinutes*60 and no callback
   scheduled; an appear event for an id that has an instance keeps its phase,
   cycleIndex, deadline and callbacks and reloads remainingSeconds from the event's
   settings only in IdleWork (work minutes) and IdleBreak (break minutes). *)
C12_AppearRefreshes ==
    [][last'.op = "WillAppear" =>
          IF contexts[last'.id] = 0 THEN ResetDone' ELSE RefreshDone']_vars

\* appear arrives for an id whose instance is counting down
C12_Witness ==
    /\ last.op = "WillAppear"
    /\ last.pre.state = RUNNING_WORK
    /\ last.pre.ticks = 1
    /\ Post.state = RUNNING_WORK
    /\ CountdownScheduled(last.ctx)

(* C13: a timer keeps tracking time across a page switch: when an instance in a
   Running or Paused phase disappears and the same id appears again, the instance
   is still in the same phase family with the same cycleIndex, and a countdown that
   was running is still running towards its original targetEndTime. Stated for the
   appear event that directly follows the disappear event. *)
C13_SurvivesPageSwitch ==
    [][(/\ last.op = "WillDisappear"
        /\ ~IsIdle(last.pre.state)
        /\ last'.op = "WillAppear"
        /\ last'.id = last.id) =>
          /\ ~IsIdle(Post'.state)
          /\ IsWorkFamily(Post'.state) = IsWorkFamily(last.pre.state)
          /\ Post'.currentCycle = last.pre.currentCycle
          /\ IsRunning(last.pre.state) =>
                /\ IsRunning(Post'.state)
                /\ Post'.targetEndTime = last.pre.targetEndTime]_vars

\* the fields of the render signature
SignatureFields ==
    {"progressStep", "title", "contentOpacity", "globalOpacity", "pulseOpacity",
     "indicatorOpacity", "state", "currentCycle"}

\* the signature the suspended render r is about to compare equals the stored one
SameSignature(r) ==
    LET ctx == heap[r.ctx]
    IN  /\ ~ctx.lastState.empty
        /\ \A f \in SignatureFields : NewLastState(ctx, r)[f] = ctx.lastState[f]

(* C14: a render whose signature (progress step of 400, title, contentOpacity and
   globalOpacity in steps of 0.05, pulseOpacity, indicatorOpacity, phase,
   cycleIndex) equals the stored one emits no image and leaves the stored
   signature as it is; a render whose signature differs in any field emits exactly
   one image and stores the new signature. *)
C14_RenderSuppression ==
    [][last'.op = "ResumeRender" =>
          LET r == Head(inflight)
          IN  IF SameSignature(r)
              THEN /\ last'.calls = <<>>
                   /\ heap'[r.ctx].lastState = heap[r.ctx].lastState
              ELSE /\ Len(last'.calls) = 1
                   /\ last'.calls[1].op = "setImage"
                   /\ last'.calls[1].id = r.id
                   /\ ~heap'[r.ctx].lastState.empty
                   /\ \A f \in SignatureFields :
                         heap'[r.ctx].lastState[f] = NewLastState(heap[r.ctx], r)[f]]_vars

\* a second countdown tick at the same instant has been suppressed
C14_Witness ==
    /\ last.op = "ResumeRender"
    /\ last.calls = <<>>
    /\ IsRunning(Post.state)
    /\ ~Post.lastState.empty

(* C15: set-title and set-image are suppressed together: a render call whose
   signature equals the last emitted one makes no host call at all. Stated for
   the step that started the render: if the render it has just suspended is about
   to find its signature unchanged, that step has not called set-title for it. *)
C15_NoCallWhenUnchanged ==
    \A i \in DOMAIN inflight :
        SameSignature(inflight[i]) =>
            \A j \in DOMAIN last.calls :
                ~(last.calls[j].op = "setTitle" /\ last.calls[j].id = inflight[i].id)

\* the last step was run for an instance that still exists
OnInstance ==
    /\ last.op \notin {"Init", "Advance", "WillDisappear"}
    /\ contexts[last.id] = last.ctx

(* C16 as stated: in every reachable state of an instance targetEndTime is set
   (not 0, the value a new instance has) exactly when the phase is RunningWork or
   RunningBreak. *)
C16_DeadlineIffRunning ==
    \A id \in AllIds :
        contexts[id] # 0 => ((Ctx(id).targetEndTime # 0) <=> IsRunning(Ctx(id).state))

(* C16 as amended: targetEndTime is set whenever the phase is RunningWork or
   RunningBreak, and it is written only by the step that starts or resumes a
   countdown, to now + remainingSeconds*1000; no step clears it, so a pause, a
   completion and a reset leave the deadline of the last countdown in place. *)
C16_DeadlineWhileRunning ==
    /\ \A id \in AllIds :
          (contexts[id] # 0 /\ IsRunning(Ctx(id).state)) => Ctx(id).targetEndTime > 0
    /\ (OnInstance /\ Post.targetEndTime # last.pre.targetEndTime) =>
          /\ ShortPress
          /\ ~IsRunning(last.pre.state)
          /\ IsRunning(Post.state)
          /\ Post.targetEndTime = now + Post.remainingSeconds * 1000

\* a pause has left the deadline of the countdown in place
C16_Witness ==
    /\ ShortPress
    /\ IsRunning(last.pre.state)
    /\ IsPaused(Post.state)
    /\ Post.targetEndTime = last.pre.targetEndTime
    /\ Post.targetEndTime > 0

(* C17: the countdown callback is scheduled only in RunningWork or RunningBreak,
   the pause-pulse callback only in PausedWork or PausedBreak, and never both for
   one instance: every live countdown interval belongs to a mapped instance in a
   Running phase, every live pause-pulse interval to one in a Paused phase. *)
C17_CallbacksByPhase ==
    /\ \A h \in Handles :
          /\ timers[h].kind = "tick" =>
                /\ contexts[timers[h].id] = timers[h].ctx
                /\ IsRunning(heap[timers[h].ctx].state)
          /\ timers[h].kind = "pulse" =>
                /\ contexts[timers[h].id] = timers[h].ctx
                /\ IsPaused(heap[timers[h].ctx].state)
    /\ \A id \in AllIds :
          contexts[id] # 0 =>
              /\ Ctx(id).timer # 0 => IsRunning(Ctx(id).state)
              /\ Ctx(id).pauseAnimationTimer # 0 => IsPaused(Ctx(id).state)
              /\ Live("tick", contexts[id]) = {} \/ Live("pulse", contexts[id]) = {}

\* a pause has replaced the countdown of a running break by the pause-pulse
C17_Witness ==
    /\ ShortPress
    /\ last.pre.state = RUNNING_BREAK
    /\ last.pre.ticks = 1
    /\ Post.state = PAUSED_BREAK
    /\ PulseScheduled(last.ctx)
    /\ Live("tick", last.ctx) = {}

\* the live callbacks of one kind that were scheduled for id
LiveFor(kind, id) == {h \in Handles : timers[h].kind = kind /\ timers[h].id = id}

\* the handle the instance of id holds for a kind of callback (0: none)
HeldHandle(kind, id) ==
    IF contexts[id] = 0 THEN 0
    ELSE CASE kind = "tick" -> Ctx(id).timer
           [] kind = "pulse" -> Ctx(id).pauseAnimationTimer
           [] kind = "hold" -> Ctx(id).holdTimeout

(* C18: after any sequence of host events, in any order and with any repetition,
   each instance has at most one scheduled countdown, at most one scheduled
   pause-pulse and at most one pending long-press timeout, and none is orphaned:
   every live callback is the one its instance holds the handle of. *)
C18_NoOrphans ==
    \A id \in AllIds, kind \in {"tick", "pulse", "hold"} :
        /\ Cardinality(LiveFor(kind, id)) <= 1
        /\ \A h \in LiveFor(kind, id) : HeldHandle(kind, id) = h

(* C19: in every reachable state the cycleIndex of an instance is at least 0 and at
   most cycleCount - 1, for the cycle count (clamped to 1..4) of the settings most
   recently delivered for the instance. *)
C19_CycleInRange ==
    \A id \in AllIds :
        contexts[id] # 0 =>
            /\ parseSettings(Raw(id)).numCycles \in MIN_CYCLES..MAX_CYCLES
            /\ Ctx(id).currentCycle \in 0..(parseSettings(Raw(id)).numCycles - 1)

\* an edit from four cycles to two arrives in the last of the four cycles
C19_Witness ==
    /\ last.op = "DidReceiveSettings"
    /\ last.pre.currentCycle = 3
    /\ Current.numCycles = 2
    /\ Post.currentCycle = 0

\* the last step completed a break: a countdown expiry in RunningBreak or a long
\* press in PausedBreak
BreakCompleted ==
    /\ \/ Expiry /\ last.pre.state = RUNNING_BREAK
       \/ last.op = "HoldFire" /\ last.pre.state = PAUSED_BREAK
    /\ Post.state = IDLE_WORK

(* C20 as stated: a step of an instance changes cycleIndex only when it is the
   break-to-work transition (the completion of a break); every other step leaves
   cycleIndex unchanged. *)
C20_OnlyBreakCompletion ==
    (OnInstance /\ Post.currentCycle # last.pre.currentCycle) => BreakCompleted

(* C20 as amended: a step of an instance changes cycleIndex only when it completes
   a break, which sets it to (old + 1) mod cycleCount, or when it resets the
   instance (a settings change, or a long press in an Idle or Running phase),
   which sets it to 0; every other step leaves cycleIndex unchanged. *)
C20_BreakCompletionOrReset ==
    (OnInstance /\ Post.currentCycle # last.pre.currentCycle) =>
        \/ /\ BreakCompleted
           /\ Post.currentCycle = (last.pre.currentCycle + 1) % last.settings.numCycles
        \/ /\ \/ last.op = "DidReceiveSettings"
              \/ last.op = "HoldFire" /\ ~IsPaused(last.pre.state)
           /\ Post.currentCycle = 0
           /\ Post.state = IDLE_WORK

\* a long press in a running phase of the second cycle has reset the index
C20_Witness ==
    /\ last.op = "HoldFire"
    /\ IsRunning(last.pre.state)
    /\ last.pre.currentCycle = 1
    /\ Post.currentCycle = 0

----------------------------------------------------------------------------
(* Isolation of instances *)

\* a step leaves instance id as it was: its map entry, every field of its context
\* object (phase, cycle, remaining seconds, deadline, timer handles, stored
\* signature), and the scheduled callbacks that belong to it
Untouched(id) ==
    /\ contexts'[id] = contexts[id]
    /\ contexts[id] # 0 => heap'[contexts[id]] = heap[contexts[id]]
    /\ \A h \in Handles :
          (timers[h].id = id \/ timers'[h].id = id) => timers'[h] = timers[h]
    /\ present'[id] = present[id]

(* C21: no mutable state is shared between instances: a step taken for instance
   id A (an event for A, or a callback A scheduled) never changes the phase,
   cycle index, remaining seconds, deadline, scheduled callbacks or stored
   signature of another instance B, whatever the interleaving; a step of the
   clock changes no instance. *)
C21_NoSharedState ==
    [][\A id \in AllIds : id # last'.id => Untouched(id)]_vars

\* the countdown of k1 has completed while k2 keeps running with its own countdown
C21_Witness ==
    /\ last.op = "Tick"
    /\ last.id = "k1"
    /\ Expiry
    /\ contexts["k2"] # 0
    /\ contexts["k2"] # last.ctx
    /\ heap[contexts["k2"]].state = RUNNING_WORK
    /\ LiveFor("tick", "k2") # {}

----------------------------------------------------------------------------
(* The completion sound *)

\* how many times the last step ran the sound command
SoundsPlayed == Cardinality({i \in DOMAIN last.calls : last.calls[i].op = "exec"})

\* the last step completed a phase: a countdown expired, or a long press skipped
\* a paused phase
PhaseCompleted ==
    \/ Expiry
    \/ last.op = "HoldFire" /\ IsPaused(last.pre.state)

(* C22: the completion sound is played exactly once by a step that completes a
   phase (natural expiry, or long-press skip of a paused phase) when the current
   settings of the instance resolve soundEnabled to true and the platform is
   macOS, and it is played by no other step: not when soundEnabled is false or
   absent, not on another platform, not on reset, pause, resume, appear or a
   settings change. *)
C22_SoundOncePerCompletion ==
    SoundsPlayed = IF /\ PhaseCompleted
                      /\ Current.soundEnabled
                      /\ platform = "darwin"
                   THEN 1 ELSE 0

\* a work countdown has expired on macOS with the sound enabled: one sound
C22_Witness ==
    /\ Expiry
    /\ last.pre.state = RUNNING_WORK
    /\ Current.soundEnabled
    /\ platform = "darwin"
    /\ SoundsPlayed = 1

----------------------------------------------------------------------------
(* Settings resolution *)

\* the last step resolved a settings object (absent settings count as {})
Resolved == last.op = "parseSettings"

clamp(n, lo, hi) == IF n < lo THEN lo ELSE IF n > hi THEN hi ELSE n

(* C23: resolving the empty object gives workMinutes 25, breakMinutes 5,
   cycleCount 4 and soundEnabled false; for a field holding the decimal string
   of an integer n, workMinutes and breakMinutes resolve to n when n >= 1 and to
   their defaults otherwise, and cycleCount resolves to n clamped into [1,4]
   ("99" gives 4, "0" gives 1); an unparsable string resolves to the default
   (4 for cycleCount). *)
C23_BoundedDefaults ==
    (Resolved /\ last.settings.ok) =>
        LET o == last.object
            r == last.settings
        IN  /\ o = EmptyObject =>
                  /\ r.workTime = DEFAULT_WORK_MINS
                  /\ r.breakTime = DEFAULT_BREAK_MINS
                  /\ r.numCycles = DEFAULT_NUM_CYCLES
                  /\ r.soundEnabled = FALSE
            /\ \A n \in 0..MaxNumber :
                  /\ o.workTime = Str(ToDecimal(n)) =>
                        r.workTime = IF n >= 1 THEN n ELSE DEFAULT_WORK_MINS
                  /\ o.breakTime = Str(ToDecimal(n)) =>
                        r.breakTime = IF n >= 1 THEN n ELSE DEFAULT_BREAK_MINS
                  /\ o.numCycles = Str(ToDecimal(n)) =>
                        r.numCycles = clamp(n, MIN_CYCLES, MAX_CYCLES)
                  /\ o.workTime = Str(<<"-">> \o ToDecimal(n)) =>
                        r.workTime = DEFAULT_WORK_MINS
                  /\ o.breakTime = Str(<<"-">> \o ToDecimal(n)) =>
                        r.breakTime = DEFAULT_BREAK_MINS
                  /\ o.numCycles = Str(<<"-">> \o ToDecimal(n)) =>
                        r.numCycles = MIN_CYCLES
            /\ \A s \in Unparsable :
                  /\ o.workTime = Str(s) => r.workTime = DEFAULT_WORK_MINS
                  /\ o.breakTime = Str(s) => r.breakTime = DEFAULT_BREAK_MINS
                  /\ o.numCycles = Str(s) => r.numCycles = DEFAULT_NUM_CYCLES

\* numCycles "99" has been resolved to 4
C23_Witness ==
    /\ Resolved
    /\ last.object.numCycles = Str(<<"9", "9">>)
    /\ last.settings.ok
    /\ last.settings.numCycles = MAX_CYCLES

(* C24: settings resolution never fails: for every raw settings value, absent
   settings, fields of the wrong type and unparsable strings included,
   parseSettings returns a settings value and does not raise. *)
C24_NeverFails == Resolved => last.settings.ok

----------------------------------------------------------------------------
(* C25: for each of the six phases and all valid settings the total duration used
   for progress is workMinutes*60 in IdleWork, RunningWork and PausedWork and
   breakMinutes*60 in IdleBreak, RunningBreak and PausedBreak. *)
C25_TotalByFamily ==
    last.op = "getTotalSecondsForCurrentState" =>
        /\ last.state \in {IDLE_WORK, RUNNING_WORK, PAUSED_WORK} =>
              last.total = last.settings.workTime * 60
        /\ last.state \in {IDLE_BREAK, RUNNING_BREAK, PAUSED_BREAK} =>
              last.total = last.settings.breakTime * 60

\* the total of a paused work phase whose work and break durations differ
C25_Witness ==
    /\ last.op = "getTotalSecondsForCurrentState"
    /\ last.state = PAUSED_WORK
    /\ last.settings.workTime # last.settings.breakTime
    /\ last.total = last.settings.workTime * 60

----------------------------------------------------------------------------
(* C26: remainingSeconds >= 0 in every reachable state of every instance (and of
   every context object a callback still holds), for all resolved settings and
   all tick timings, ticks delivered after targetEndTime included. *)
C26_RemainingNonNegative ==
    \A c \in CtxRefs : heap[c].remainingSeconds >= 0

\* a tick delivered after the deadline has completed the countdown, and a tick
\* in the last second before a deadline has left remainingSeconds at 0
C26_Witness ==
    /\ Expiry
    /\ last.at > last.pre.targetEndTime
    /\ last.pre.remainingSeconds = 0
    /\ OnInstance
    /\ Post.remainingSeconds >= 0

----------------------------------------------------------------------------
(* C27: whenever an instance is in IdleWork (IdleBreak) its remainingSeconds
   equals workMinutes*60 (breakMinutes*60) of the settings most recently
   delivered for it, after any sequence of events and callbacks: no callback
   armed under earlier settings loads a duration from those earlier settings. *)
C27_IdleLoadsCurrentSettings ==
    \A id \in AllIds :
        contexts[id] # 0 =>
            LET ctx == heap[contexts[id]]
                current == parseSettings(Raw(id))
            IN  /\ ctx.state = IDLE_WORK =>
                      ctx.remainingSeconds = current.workTime * 60
                /\ ctx.state = IDLE_BREAK =>
                      ctx.remainingSeconds = current.breakTime * 60

----------------------------------------------------------------------------
(* C28: a countdown completes only on a tick that observes now >= targetEndTime,
   and the first tick delivered at or after targetEndTime completes it (the phase
   becomes the Idle phase of the other family and the countdown is cancelled),
   however late it comes and whatever ticks before it were missed; every other
   tick keeps the phase and the countdown and sets remainingSeconds to
   floor((targetEndTime - now) / 1000), whatever its previous value. *)
C28_TickByDeadline ==
    last.op = "Tick" =>
        IF last.at >= last.pre.targetEndTime
        THEN /\ IsRunning(last.pre.state)
             /\ IsIdle(Post.state)
             /\ IsWorkFamily(Post.state) # IsWorkFamily(last.pre.state)
             /\ CountdownCancelled(last.ctx)
        ELSE /\ Post.state = last.pre.state
             /\ Post.remainingSeconds = (last.pre.targetEndTime - last.at) \div 1000
             /\ CountdownScheduled(last.ctx)

\* the only tick of a countdown came after the deadline and completed it
C28_Witness ==
    /\ last.op = "Tick"
    /\ last.at > last.pre.targetEndTime
    /\ last.pre.remainingSeconds = Current.workTime * 60
    /\ last.pre.state = RUNNING_WORK
    /\ Post.state = IDLE_BREAK


----------------------------------------------------------------------------
(* Pausing and the time a countdown still owes *)

\* the last step paused a countdown before its deadline, at an instant for which
\* remainingSeconds was up to date (as the tick of that instant leaves it)
PausedUpToDate ==
    /\ ShortPress
    /\ IsRunning(last.pre.state)
    /\ last.pre.targetEndTime > last.at
    /\ last.pre.remainingSeconds = (last.pre.targetEndTime - last.at) \div 1000

\* the running time the paused phase has lost: what was left to the deadline when
\* it was paused, less what the resume will schedule (remainingSeconds * 1000)
LostByPause == (last.pre.targetEndTime - last.at) - Post.remainingSeconds * 1000

(* C29: pausing loses or gains no countdown time: a phase that is paused and
   resumed and then runs to completion has been Running for the configured
   duration to within one tick period (50 ms); so the time a pause keeps for the
   resume differs from the time that was left to the deadline by at most one
   tick period. *)
C29_PauseKeepsTime ==
    PausedUpToDate => (LostByPause <= TICK_MS /\ 0 - LostByPause <= TICK_MS)

----------------------------------------------------------------------------
(* Liveness of a running countdown *)

HostOps == {"WillAppear", "WillDisappear", "DidReceiveSettings", "KeyDown", "KeyUp"}

\* the last step was a host event
HostEvent == last.op \in HostOps

LastInstant == CHOOSE t \in PairInstants : \A u \in PairInstants : u <= t

\* the instance of id is in the running phase state, by a step that was no host
\* event, with a deadline among the instants of the model
RunningAlone(id, state) ==
    /\ contexts[id] # 0
    /\ Ctx(id).state = state
    /\ Ctx(id).targetEndTime <= LastInstant
    /\ ~HostEvent

\* the instance of id is in the idle phase state with no countdown scheduled
Completed(id, state) ==
    /\ contexts[id] # 0
    /\ Ctx(id).state = state
    /\ LiveFor("tick", id) = {}
    /\ Ctx(id).timer = 0

\* a long-press timeout of id is pending
HoldPending(id) == LiveFor("hold", id) # {}

(* C30 as stated: an instance in RunningWork (RunningBreak) that receives no
   further host event eventually, under fair ticks and an advancing clock,
   reaches IdleBreak (IdleWork) with its countdown cancelled. *)
C30_RunningCompletes ==
    \A id \in Ids :
        /\ RunningAlone(id, RUNNING_WORK) ~> (Completed(id, IDLE_BREAK) \/ HostEvent)
        /\ RunningAlone(id, RUNNING_BREAK) ~> (Completed(id, IDLE_WORK) \/ HostEvent)

(* C30 as amended: the same for an instance whose key is not held at that moment
   (no long-press timeout is pending); the completion cancels the countdown, so
   a run completes once. With the key held and no further host event the
   long-press timeout fires first and resets the instance to IdleWork. *)
C30_RunningCompletesUnlessHeld ==
    \A id \in Ids :
        /\ (RunningAlone(id, RUNNING_WORK) /\ ~HoldPending(id))
              ~> (Completed(id, IDLE_BREAK) \/ HostEvent)
        /\ (RunningAlone(id, RUNNING_BREAK) /\ ~HoldPending(id))
              ~> (Completed(id, IDLE_WORK) \/ HostEvent)

\* a break countdown has run out with no key held, and the instance is in
\* IdleWork with no countdown
C30_Witness ==
    /\ Expiry
    /\ last.pre.state = RUNNING_BREAK
    /\ last.pre.holds = 0
    /\ ~HoldPending(last.id)
    /\ Completed(last.id, IDLE_WORK)

----------------------------------------------------------------------------
(* C31: an entry for an id exists in the registry only between an appear for that
   id and the next disappear: while the id is not present (it never appeared, or
   its last appear was followed by a disappear) the registry holds no entry and
   no callback is scheduled for it, whatever host events arrive, press and
   settings-changed events for an id that is not present included. *)
C31_EntryOnlyWhilePresent ==
    \A id \in AllIds :
        ~present[id] =>
            /\ contexts[id] = 0
            /\ \A kind \in {"tick", "pulse", "hold"} : LiveFor(kind, id) = {}

----------------------------------------------------------------------------
(* The indicator dots of an emitted image *)

\* the images the last step handed to setImage
EmittedImages == {last.calls[i].image : i \in {j \in DOMAIN last.calls :
                                                 last.calls[j].op = "setImage"}}

DotsOf(image, kind) == {i \in DOMAIN image.dots : image.dots[i] = kind}

(* C32: every emitted image has exactly cycleCount indicator dots; exactly
   cycleIndex of them, the first ones, are completed, exactly one, at index
   cycleIndex, is the current dot, and the remaining cycleCount - cycleIndex - 1
   are inactive. *)
C32_DotsByCycle ==
    \A image \in EmittedImages :
        LET n == Current.numCycles
            k == Post.currentCycle
        IN  /\ DOMAIN image.dots = 1..n
            /\ DotsOf(image, "completed") = 1..k
            /\ DotsOf(image, "current") = {k + 1}
            /\ Cardinality(DotsOf(image, "inactive")) = n - k - 1

\* the same with the cycle count of the settings object the render was called
\* with (for a long-press timeout, the settings read at press-down)
C32_DotsByRenderSettings ==
    \A image \in EmittedImages :
        LET n == last.settings.numCycles
            k == Post.currentCycle
        IN  /\ DOMAIN image.dots = 1..n
            /\ DotsOf(image, "completed") = 1..k
            /\ DotsOf(image, "current") = {k + 1}
            /\ Cardinality(DotsOf(image, "inactive")) = n - k - 1

----------------------------------------------------------------------------
(* C33: in the Timer of src/src/actions/timer.ts, for every numCycles setting the
   cycle index after any number of break completions stays within 0 .. n-1, where
   n = min(4, max(1, numCycles)) is the number of dots drawn, so a current-cycle
   dot is always drawn. *)
C33_OldCycleInRange ==
    last.op \in {"old.onWillAppear", "old.handleTimerComplete", "old.reset"} =>
        last.currentCycle \in 0..(OldDrawnCycles(last.numCycles) - 1)

----------------------------------------------------------------------------
(* C34: in the Pomodoro action each key has its own timer state: a press, a
   countdown tick, a long press or a settings-changed event for one id never
   changes the phase, cycle or remainingSeconds that another id, visible at the
   same time, has. *)
C34_PomodoroIsolated ==
    (/\ last.op \in {"KeyUp", "Tick", "HoldFire", "DidReceiveSettings"}
     /\ last.others # {}) =>
        /\ last.pom.state = last.pre.state
        /\ last.pom.currentCycle = last.pre.currentCycle
        /\ last.pom.remainingSeconds = last.pre.remainingSeconds

----------------------------------------------------------------------------
(* C35: the title text is the remaining whole seconds when remainingSeconds < 60
   and floor(remainingSeconds / 60) when remainingSeconds >= 60, written as a
   bare decimal number (digits only, no leading zero, no suffix): 59 gives "59",
   60 and 119 both give "1", 1500 gives "25". *)
C35_TitleText ==
    last.op = "formatTime" =>
        LET n == IF last.seconds < 60 THEN last.seconds ELSE last.seconds \div 60
            text == last.text
        IN  /\ text # <<>>
            /\ \A i \in DOMAIN text : IsDigit(text[i])
            /\ Len(text) > 1 => text[1] # "0"
            /\ ParseInt(text) = Number(n)
            /\ last.seconds = 59 => text = <<"5", "9">>
            /\ last.seconds \in {60, 119} => text = <<"1">>
            /\ last.seconds = 1500 => text = <<"2", "5">>

\* the title of 119 seconds is "1"
C35_Witness ==
    /\ last.op = "formatTime"
    /\ last.seconds = 119
    /\ last.text = <<"1">>

(* C36: the long-press action is chosen by the phase when the timeout fires, not
   by the phase at press-down: fired in a Paused phase it completes the phase,
   fired in any other phase it is a full reset to IdleWork with cycleIndex 0 and
   the work time the timeout's closure holds, whatever the phase was at
   press-down (a countdown that expired, or a settings reset, during the hold). *)
C36_ActsOnPhaseAtFire ==
    last.op = "HoldFire" =>
        IF IsPaused(last.pre.state)
        THEN Post.state = (IF last.pre.state = PAUSED_WORK THEN IDLE_BREAK
                           ELSE IDLE_WORK)
        ELSE /\ Post.state = IDLE_WORK
             /\ Post.currentCycle = 0
             /\ Post.remainingSeconds = last.settings.workTime * 60

C36_Witness ==
    /\ last.op = "HoldFire"
    /\ last.pre.pressed = RUNNING_WORK
    /\ last.pre.state = IDLE_BREAK
    /\ last.pre.currentCycle = 1
    /\ Post.state = IDLE_WORK
    /\ Post.currentCycle = 0

(* C37: whenever an instance is in an Idle phase and no updateView is suspended,
   the signature last emitted for it has its current phase and cycleIndex and the
   title formatted from its current remainingSeconds (setTitle promises settling
   in the order issued): an image rendered from a title read before a later
   transition does not stay. *)
C37_IdleImageCurrent ==
    \A id \in AllIds :
        (contexts[id] # 0 /\ IsIdle(Ctx(id).state) /\ inflight = <<>>) =>
            /\ ~Ctx(id).lastState.empty
            /\ Ctx(id).lastState.state = Ctx(id).state
            /\ Ctx(id).lastState.currentCycle = Ctx(id).currentCycle
            /\ Ctx(id).lastState.title = formatTime(Ctx(id).remainingSeconds)

\* the last render has replaced an image of the current phase with an older title
C37_Witness ==
    /\ last.op = "ResumeRender"
    /\ inflight = <<>>
    /\ contexts[last.id] = last.ctx
    /\ Post.state = IDLE_BREAK
    /\ ~last.pre.shown.empty
    /\ last.pre.shown.state = IDLE_BREAK
    /\ last.pre.shown.currentCycle = Post.currentCycle
    /\ last.pre.shown.title # formatTime(Post.remainingSeconds)
    /\ Post.lastState.title = formatTime(Post.remainingSeconds)

(* C38: a short press never changes cycleIndex and never changes the Work/Break
   family of the phase: it moves the instance to another of the Idle, Running and
   Paused phases of the same family. *)
C38_ShortPressKeepsFamily ==
    ShortPress =>
        /\ Post.currentCycle = last.pre.currentCycle
        /\ IsWorkFamily(Post.state) = IsWorkFamily(last.pre.state)
        /\ Post.state # last.pre.state

C38_Witness ==
    /\ ShortPress
    /\ last.pre.state = IDLE_BREAK
    /\ last.pre.currentCycle = 1
    /\ Post.state = RUNNING_BREAK
    /\ Post.currentCycle = 1

(* C39: handleTimerComplete runs only for an instance in a Running or Paused phase
   (from the countdown tick that finds the deadline reached, or from the long
   press of a paused phase), and the phase after it differs from the phase before;
   a step that brings an instance into IdleBreak is the expiry of RunningWork or
   the long press of PausedWork, so nothing leads from IdleWork or from a
   Break-family phase directly into IdleBreak. *)
C39_BreakOnlyAfterWork ==
    /\ (OnInstance /\ Expiry) => IsRunning(last.pre.state)
    /\ (OnInstance /\ PhaseCompleted) =>
          /\ Post.state # last.pre.state
          /\ IsIdle(Post.state)
    /\ (OnInstance /\ Post.state = IDLE_BREAK /\ last.pre.state # IDLE_BREAK) =>
          \/ last.pre.state = RUNNING_WORK /\ Expiry
          \/ last.pre.state = PAUSED_WORK /\ last.op = "HoldFire"

C39_Witness ==
    /\ OnInstance
    /\ last.op = "HoldFire"
    /\ last.pre.state = PAUSED_WORK
    /\ Post.state = IDLE_BREAK

\* the setImage calls of the last step
ImagesSet == {i \in DOMAIN last.calls : last.calls[i].op = "setImage"}

(* C40: the first render of a newly created instance always emits an image. The
   appear that creates the instance leaves it with the empty lastState and an
   updateView suspended; the render that finds the empty lastState makes exactly
   one setImage call, for the id of the instance, and stores its signature, also
   when the id had appeared, shown the same image and disappeared before. *)
C40_FirstRenderEmits ==
    /\ (last.op = "WillAppear" /\ OnInstance) =>
          /\ Post.lastState.empty
          /\ ImagesSet = {}
          /\ \E i \in DOMAIN inflight : inflight[i].ctx = last.ctx
    /\ (last.op = "ResumeRender" /\ last.pre.shown.empty) =>
          /\ Cardinality(ImagesSet) = 1
          /\ \A i \in ImagesSet : last.calls[i].id = last.id
          /\ OnInstance => ~Post.lastState.empty

\* the first render of an instance whose id was pressed while an earlier instance
\* of it was visible
C40_Witness ==
    /\ last.op = "ResumeRender"
    /\ OnInstance
    /\ inflight = <<>>
    /\ last.pre.shown.empty
    /\ press[last.id].short = 1
    /\ ~down[last.id]
    /\ Cardinality(ImagesSet) = 1
    /\ Post.state = IDLE_WORK

====
